---- MODULE Spec2Model ----
(***************************************************************************)
(* Verification model of the subscription batcher: the sync planner        *)
(* (UserManager.sync_users / _needs_update), one reconciliation run        *)
(* (SubscriptionManager.process_subscription_file in sync mode, with       *)
(* UserManager.execute_sync_plan and GroupManager.batch_update_            *)
(* subscriptions), the concurrent batch executor (UserManager.batch_       *)
(* process_users_concurrent) and the retry policy (AWSClient._retry_api_   *)
(* call).                                                                  *)
(*                                                                         *)
(* Strings are modelled as sequences of tokens, so that endswith, split    *)
(* and template formatting are computed, not assumed.                      *)
(***************************************************************************)
EXTENDS Integers, Sequences, FiniteSets, TLC

VARIABLES
    \* ---- one reconciliation run (main.py, sync mode) ----
    phase,            \* position of process_subscription_file
    use_new_format,   \* config.user_format.use_new_format
    desired,          \* the validated CSV records, in input order
    directory,        \* the remote identity store: username -> user record
    sync_plan,        \* the dict returned by sync_users
    shared_cache,     \* the DataCache built by main.py and handed to execute_sync_plan
    snapshots_built,  \* how many DataCache instances this run has initialized
    decision_reads,   \* the (decision, snapshot number) pairs of this run
    faults,           \* remote mutations that have failed so far
    run_ok,           \* every operation result of the run so far has success = True
    replan,           \* the plan of the next run, computed after this one is done
    snapshot_failures, \* the places of the run where building a DataCache raised
    blind_calls,      \* mutations issued by a batch whose snapshot could not be built
    \* ---- one call of batch_process_users_concurrent ----
    op_impl,          \* what the pool's worker calls for an item
    max_workers,      \* the size of the ThreadPoolExecutor
    n_users,          \* len(users)
    ex_pc,            \* position of the calling thread
    ex_i,             \* index of the user the submission loop is at
    task,             \* per item: the state of its future
    task_out,         \* per item: the success field of the result its future holds
    gw,               \* per item: how the gateway call made for it last ended
    rate_limit_event, \* the threading.Event
    collect_i,        \* index of the future the collection loop is at
    operation_results,
    successful_operations,
    failed_operations,
    calls,            \* per item: how often process_single_user was entered for it
    submitted_with_flag, \* the items submitted while the event was set
    serial_i,         \* index of the user the serial loop is at
    serial_busy,      \* the calling thread is inside process_single_user
    show_progress,    \* the show_progress argument
    \* ---- one call of AWSClient._retry_api_call ----
    rt_max_attempts,  \* retry_config.max_attempts
    rt_attempt,       \* the loop variable attempt
    rt_pc,            \* position inside the loop
    rt_outcomes,      \* how each call of func ended, in order
    rt_sleeps,        \* the delays slept, in order
    rt_func,          \* which of AWSClient's two retry loops runs
    rt_error,         \* the AWSClientError the loop raised
    \* ---- one DataCache object, its callers and the directory it reads ----
    gw_users,         \* the UserIds list_users returns
    gw_groups,        \* the GroupIds list_groups returns
    gw_members,       \* per group: the UserIds list_group_memberships returns
    dc_users,         \* DataCache._users
    dc_group_id_to_name,
    dc_user_id_to_groups,
    dc_initialized,
    dc_lock,          \* the thread that holds DataCache._lock, 0 when free
    dc_builder,       \* the thread whose initialize built the present contents
    issuers,          \* the threads that issued a list call since __init__ or clear
    th,               \* per calling thread: where it is inside initialize
    dc_faults,        \* the gateway calls that raised
    first_read,       \* what the accessors returned first after a build
    last_read,        \* what the accessors returned last
    \* ---- one call of UserManager._needs_update ----
    nu_csv_user,      \* the UserSubscription
    nu_iam_user,      \* the IAMUser of the snapshot, its groups a list
    nu_newfmt,        \* _should_use_new_format()
    nu_pc,            \* "idle", "call" or "done"
    nu_result,        \* what the call returned
    \* ---- one call of UserAttributeUpgrader.upgrade_user_attributes ----
    up_dir,           \* the directory: username -> attributes
    up_iam_users,     \* the argument users
    up_csv_users,     \* the argument csv_users
    up_dry_run,       \* the argument dry_run
    up_pc,            \* "idle", "start", "execute" or "done"
    up_plan,          \* upgrade_plan
    up_i,             \* the position of the loop over upgrade_plan.users_to_upgrade
    up_operations,    \* upgrade_operations
    up_successful,    \* successful_count
    up_failed,        \* failed_count
    up_update_calls,  \* the user ids update_user_with_operations was called for
    up_faults,        \* the update calls that raised
    up_result,        \* the UpgradeResult the call returned
    \* ---- batch_verify_upgrades on the operations of that call ----
    vf_i,             \* the position of the loop over upgrade_operations
    vf_stats,         \* verification_stats
    vf_log,           \* per operation: what the verification did with it
    vf_faults,        \* the lookups that failed
    vf_edits,         \* the edits others made to the directory meanwhile
    \* ---- the PerformanceMetrics collector of one sync run ----
    pm_pc,            \* where the run is: "idle", "init", "cache_init", "filter",
                      \* "batches", "finished" or "aborted"
    pm_stage,         \* the batch execute_sync_plan is at: 1 create, 2 update, 3 delete
    pm_in_phase,      \* whether the phase of that batch has been started
    pm_todo,          \* per batch: the items not handled yet
    pm_to_filter,     \* the users of users_to_update not filtered yet
    pm_clock,         \* time.time()
    pm_phases,        \* PerformanceMetrics._phases
    pm_api_calls,     \* PerformanceMetrics._api_calls
    pm_cache_stats,   \* PerformanceMetrics._cache_stats
    pm_operations,    \* PerformanceMetrics._operations
    pm_gateway_calls, \* the calls that went through AWSClient._retry_api_call
    pm_show_progress, \* the show_progress argument of the run
    \* ---- the worker count of one process_subscription_file call ----
    wk_pc,            \* "idle", "validate", "batches", "done" or "raised"
    wk_request,       \* the max_workers argument
    wk_performance,   \* config.performance
    wk_max_workers,   \* the local max_workers after the validation
    wk_pools,         \* the sizes of the ThreadPoolExecutors made, in order
    \* ---- one call of GroupManager.update_user_subscriptions ----
    sb_pc,            \* "idle", "start" or "done"
    sb_user,          \* the UserSubscription
    sb_before,        \* the directory when the call was made
    sb_dir,           \* the directory
    sb_success,       \* the success field of the OperationResult
    \* ---- the three batches of execute_sync_plan ----
    bt_plan,          \* the number of items of each partition of the plan
    bt_show_progress, \* the show_progress argument
    bt_max_workers,   \* the max_workers argument
    bt_stage,         \* the partition the calling thread is at, 4 after the last
    bt_at,            \* the position of the calling thread in the batch
    bt_i,             \* the index of the submit loop, then of the collect loop
    bt_submitted,     \* the length of futures
    bt_results,       \* the length of operation_results
    bt_rate_limit,    \* rate_limit_event of the batch
    bt_future,        \* the state of the task of every item of every partition
    bt_begun,         \* the items whose operation has started
    bt_finished,      \* the items whose operation has finished
    \* ---- threads recording into one PerformanceMetrics ----
    mc_lock,          \* PerformanceMetrics._lock: 0 when free, else the thread holding it
    mc_tables,        \* _api_calls, _cache_stats and the entries of _operations
    mc_pc,            \* the position of every thread in its record call
    mc_call,          \* the record call of every thread
    mc_step,          \* the counter of the call the thread is at
    mc_tmp,           \* the value the thread has read for its +=
    mc_calls,         \* the number of record calls made
    mc_recorded       \* per table, the successes and failures of the calls that have returned

runVars == <<phase, use_new_format, desired, directory, sync_plan, shared_cache,
             snapshots_built, decision_reads, faults, run_ok, replan, snapshot_failures, blind_calls>>

execVars == <<op_impl, max_workers, n_users, ex_pc, ex_i, task, task_out, gw,
              rate_limit_event, collect_i, operation_results, successful_operations,
              failed_operations, calls, submitted_with_flag, serial_i, serial_busy,
              show_progress>>

retryVars == <<rt_max_attempts, rt_attempt, rt_pc, rt_outcomes, rt_sleeps, rt_func, rt_error>>

cacheVars == <<gw_users, gw_groups, gw_members, dc_users, dc_group_id_to_name,
               dc_user_id_to_groups, dc_initialized, dc_lock, dc_builder, issuers,
               th, dc_faults, first_read, last_read>>

predVars == <<nu_csv_user, nu_iam_user, nu_newfmt, nu_pc, nu_result>>

upVars == <<up_dir, up_iam_users, up_csv_users, up_dry_run, up_pc, up_plan, up_i,
            up_operations, up_successful, up_failed, up_update_calls, up_faults, up_result>>

verifyVars == <<vf_i, vf_stats, vf_log, vf_faults, vf_edits>>

\* what batch_verify_upgrades leaves alone of the upgrade call
upgradeCallVars == <<up_iam_users, up_csv_users, up_dry_run, up_plan, up_i, up_operations,
                     up_successful, up_failed, up_update_calls, up_faults, up_result>>

metricVars == <<pm_pc, pm_stage, pm_in_phase, pm_todo, pm_to_filter, pm_clock, pm_phases,
                pm_api_calls, pm_cache_stats, pm_operations, pm_gateway_calls,
                pm_show_progress>>

workerVars == <<wk_pc, wk_request, wk_performance, wk_max_workers, wk_pools>>

subsVars == <<sb_pc, sb_user, sb_before, sb_dir, sb_success>>

batchVars == <<bt_plan, bt_show_progress, bt_max_workers, bt_stage, bt_at, bt_i, bt_submitted,
    bt_results, bt_rate_limit, bt_future, bt_begun, bt_finished>>

collectorVars == <<mc_lock, mc_tables, mc_pc, mc_call, mc_step, mc_tmp, mc_calls, mc_recorded>>

restVars == <<subsVars, batchVars, collectorVars>>

vars == <<runVars, execVars, retryVars, cacheVars, predVars, upVars, verifyVars, metricVars,
          workerVars, restVars>>

\* what the actions of one part leave alone
notRun == <<execVars, retryVars, cacheVars, predVars, upVars, verifyVars, metricVars,
    workerVars, restVars>>
notExec == <<runVars, retryVars, cacheVars, predVars, upVars, verifyVars, metricVars,
    workerVars, restVars>>
notRetry == <<runVars, execVars, cacheVars, predVars, upVars, verifyVars, metricVars,
    workerVars, restVars>>
notCache == <<runVars, execVars, retryVars, predVars, upVars, verifyVars, metricVars,
    workerVars, restVars>>
notPred == <<runVars, execVars, retryVars, cacheVars, upVars, verifyVars, metricVars,
    workerVars, restVars>>
notUpgrade == <<runVars, execVars, retryVars, cacheVars, predVars, metricVars,
    workerVars, restVars>>
notMetrics == <<runVars, execVars, retryVars, cacheVars, predVars, upVars, verifyVars,
    workerVars, restVars>>
notWorkers == <<runVars, execVars, retryVars, cacheVars, predVars, upVars, verifyVars,
    metricVars, restVars>>
notSubs == <<runVars, execVars, retryVars, cacheVars, predVars, upVars, verifyVars,
    metricVars, workerVars, batchVars, collectorVars>>
notBatches == <<runVars, execVars, retryVars, cacheVars, predVars, upVars, verifyVars,
    metricVars, workerVars, subsVars, collectorVars>>
notCollector == <<runVars, execVars, retryVars, cacheVars, predVars, upVars, verifyVars,
    metricVars, workerVars, subsVars, batchVars>>

(***************************************************************************)
(* Bounds of the model.                                                    *)
(***************************************************************************)
MaxDesired == 2
MaxDirUsers == 2
MaxRunDirUsers == 1
MaxFaults == 1
MaxItems == 3
MaxPoolSize == 2
MaxAttempts == 4
MaxCallers == 2
MaxCacheOps == 2
MaxCacheFaults == 1
MaxUpgradeUsers == 2
MaxUpgradeFaults == 1
MaxVerifyFaults == 1
MaxEdits == 1
MaxBatchItems == 2
MaxClock == 2
MaxGatewayCalls == 2
MaxRequest == 12
MaxBatches == 3
\* the largest number of items of one partition of the plan
MaxPartition == 2
\* the number of threads recording into the collector
MaxRecorders == 2
\* the largest number of record calls
MaxRecordCalls == 3

\* every string the code splits or formats is a sequence of tokens
EmployeeIds == {<<"E1">>, <<"E2">>}
Emails == {"li@x.com", "wu@x.com"}
\* models.py: SubscriptionType
SubscriptionTypes == {"KIRO", "QDEV", "ALL", "NONE"}
\* the name and the email the roster gives an employee
NameOf(e) ==
    IF e = <<"E1">> THEN <<"Li">> ELSE IF e = <<"E2">> THEN <<"Wu">> ELSE <<"Xu">>
EmailOf(e) ==
    IF e = <<"E1">> THEN "li@x.com" ELSE IF e = <<"E2">> THEN "wu@x.com" ELSE "xu@x.com"

(***************************************************************************)
(* Configuration defaults (config.py).                                     *)
(***************************************************************************)
kiro_group == "Group_KIRO_eu-central-1"
qdev_group == "Group_QDEV_eu-central-1"
other_group == "Group_Other"
AllGroups == {kiro_group, qdev_group, other_group}
\* GroupManager.group_names.values()
all_managed_groups == {kiro_group, qdev_group}

\* UserFormatConfig.username_suffix, '@haier-saml.com', as tokens
username_suffix == <<"@", "haier-saml.com">>

(***************************************************************************)
(* String helpers.                                                         *)
(***************************************************************************)
\* str.endswith
EndsWith(s, suf) ==
    /\ Len(s) >= Len(suf)
    /\ SubSeq(s, Len(s) - Len(suf) + 1, Len(s)) = suf

\* s.split(sep)[0]: the tokens before the first sep (all of s when there is none)
RECURSIVE SplitFirst(_, _)
SplitFirst(s, sep) ==
    IF s = <<>> \/ Head(s) = sep THEN <<>>
    ELSE <<Head(s)>> \o SplitFirst(Tail(s), sep)

(***************************************************************************)
(* models.py: UserSubscription.                                            *)
(***************************************************************************)
\* UserSubscription.get_username with the default template
\* "{employee_id}@haier-saml.com"
get_username(employee_id) == employee_id \o username_suffix

\* UserSubscription.get_target_groups
get_target_groups(subscription_type) ==
    CASE subscription_type = "KIRO" -> {kiro_group}
      [] subscription_type = "QDEV" -> {qdev_group}
      [] subscription_type = "ALL" -> {kiro_group, qdev_group}
      [] OTHER -> {}

\* A record of the roster (models.py: UserSubscription)
UserSubscription(e, n, m, t) ==
    [employee_id |-> e, name |-> n, email |-> m, subscription_type |-> t]

(***************************************************************************)
(* Attribute layouts written by create_user / update_user.                 *)
(***************************************************************************)
\* f"{employee_id}_{name}"
NewDisplayName(employee_id, name) == employee_id \o <<"_">> \o name
\* f"{name} {name}"
OldDisplayName(name) == name \o <<" ">> \o name

new_display_name(u, newfmt) ==
    IF newfmt THEN NewDisplayName(u.employee_id, u.name) ELSE OldDisplayName(u.name)
new_first_name(u, newfmt) == IF newfmt THEN u.employee_id ELSE u.name
new_last_name(u) == u.name

(***************************************************************************)
(* The directory: a function from the usernames present to user records.   *)
(* The key stands for the opaque UserId as well (a username is unique and  *)
(* no operation of the tool renames a user).                               *)
(***************************************************************************)
OtherDomainUser == <<"E1", "@", "other.com">>
DirUsernames ==
    { get_username(<<"E1">>), get_username(<<"E2">>),
      OtherDomainUser, OtherDomainUser \o username_suffix }

\* the order in which list_users returns the users
ListRank(un) ==
    CASE un = get_username(<<"E1">>) -> 1
      [] un = get_username(<<"E2">>) -> 2
      [] un = OtherDomainUser -> 3
      [] un = OtherDomainUser \o username_suffix -> 4
      [] un = <<"E2">> -> 5
      [] OTHER -> 6

\* the group memberships a user of the directory starts with: none, one
\* managed group, both managed groups, a managed and an unmanaged group
DirGroupSets == { {}, {kiro_group}, {kiro_group, qdev_group}, {kiro_group, other_group} }

\* the attributes a user of the directory starts with, for the employee its
\* username starts with: the new layout or the old one with the roster's
\* email, or the new layout with another email
DirProfiles == { <<TRUE, TRUE>>, <<FALSE, TRUE>>, <<TRUE, FALSE>> }

DirUserRecordsFor(un) ==
    LET e == SplitFirst(un, "@")
        u == UserSubscription(e, NameOf(e), EmailOf(e), "NONE")
    IN { [email |-> IF p[2] THEN u.email ELSE CHOOSE m \in Emails : m # u.email,
          first_name |-> new_first_name(u, p[1]),
          last_name |-> new_last_name(u),
          display_name |-> new_display_name(u, p[1]),
          groups |-> g] : p \in DirProfiles, g \in DirGroupSets }

Directories(n) ==
    UNION { { d \in [S -> UNION { DirUserRecordsFor(un) : un \in S }] :
                \A un \in S : d[un] \in DirUserRecordsFor(un) } :
            S \in { T \in SUBSET DirUsernames : Cardinality(T) <= n } }

DesiredRecords ==
    { UserSubscription(e, NameOf(e), EmailOf(e), t) : e \in EmployeeIds, t \in SubscriptionTypes }

\* rosters the validator lets through: no employee id twice
DesiredLists(n) ==
    UNION { { s \in [1..k -> DesiredRecords] :
                \A i, j \in 1..k : i # j => s[i].employee_id # s[j].employee_id } :
            k \in 0..n }

(***************************************************************************)
(* data_cache.py: the snapshot.                                            *)
(***************************************************************************)
\* the usernames of S as a list in list_users order
RECURSIVE ListOrder(_)
ListOrder(S) ==
    IF S = {} THEN <<>>
    ELSE LET un == CHOOSE x \in S : \A y \in S : ListRank(x) <= ListRank(y)
         IN <<un>> \o ListOrder(S \ {un})

\* models.py: IAMUser, as DataCache.initialize builds it from one list_users entry
IAMUser(dir, un) ==
    [username |-> un,
     email |-> dir[un].email,
     first_name |-> dir[un].first_name,
     last_name |-> dir[un].last_name,
     display_name |-> dir[un].display_name,
     groups |-> dir[un].groups]

\* DataCache.initialize followed by get_all_users
DataCacheUsers(dir) ==
    LET order == ListOrder(DOMAIN dir)
    IN [i \in 1..Len(order) |-> IAMUser(dir, order[i])]

(***************************************************************************)
(* user_manager.py: the planner.                                           *)
(***************************************************************************)
\* UserManager._needs_update without the comparison of the groups
needs_update_NoGroups(csv_user, iam_user, newfmt) ==
    \/ iam_user.username # get_username(csv_user.employee_id)
    \/ iam_user.email # csv_user.email
    \/ newfmt /\ iam_user.display_name # NewDisplayName(csv_user.employee_id, csv_user.name)

\* UserManager._needs_update
needs_update(csv_user, iam_user, newfmt) ==
    \/ iam_user.username # get_username(csv_user.employee_id)
    \/ iam_user.email # csv_user.email
    \/ newfmt /\ iam_user.display_name # NewDisplayName(csv_user.employee_id, csv_user.name)
    \/ get_target_groups(csv_user.subscription_type) # iam_user.groups

Range(s) == { s[i] : i \in DOMAIN s }
Usernames(users) == { get_username(users[i].employee_id) : i \in DOMAIN users }

\* the temporary UserSubscription sync_users makes for a user to delete
TempUser(iam_user) ==
    UserSubscription(SplitFirst(iam_user.username, "@"),
                     IF iam_user.display_name # <<>>
                         THEN SplitFirst(iam_user.display_name, " ") ELSE <<"Unknown">>,
                     iam_user.email, "NONE")

\* sync_users without the managed-suffix test
ToDeleteCond_NoSuffixTest(iam_user, csv_usernames) ==
    iam_user.username \notin csv_usernames

\* the condition under which sync_users deletes a snapshot user
ToDeleteCond(iam_user, csv_usernames) ==
    /\ iam_user.username \notin csv_usernames
    /\ EndsWith(iam_user.username, username_suffix)

\* UserManager.sync_users, given the snapshot get_existing_users returned
sync_users(csv_users, iam_users, newfmt) ==
    LET csv_usernames == Usernames(csv_users)
        iam_usernames == { iam_users[i].username : i \in DOMAIN iam_users }
        iam_of(un) == CHOOSE x \in Range(iam_users) : x.username = un
        IsCreate(u) == get_username(u.employee_id) \notin iam_usernames
        IsUpdate(u) == /\ get_username(u.employee_id) \in iam_usernames
                       /\ needs_update(u, iam_of(get_username(u.employee_id)), newfmt)
        IsDelete(x) == ToDeleteCond(x, csv_usernames)
        to_delete == SelectSeq(iam_users, IsDelete)
    IN [users_to_create |-> SelectSeq(csv_users, IsCreate),
        users_to_delete |-> [i \in 1..Len(to_delete) |-> TempUser(to_delete[i])],
        users_to_update |-> SelectSeq(csv_users, IsUpdate)]

total_operations(plan) ==
    Len(plan.users_to_create) + Len(plan.users_to_delete) + Len(plan.users_to_update)

EmptyPlan == [users_to_create |-> <<>>, users_to_delete |-> <<>>, users_to_update |-> <<>>]

(***************************************************************************)
(* user_manager.py: the single-user operations, as functions on the        *)
(* directory.  fail says that the remote mutation the operation issues     *)
(* ends in an AWSClientError (the lookups succeed).  Each returns the new  *)
(* directory and the success field of its OperationResult.                 *)
(***************************************************************************)
Remove(dir, un) == [x \in (DOMAIN dir) \ {un} |-> dir[x]]

\* UserManager.create_user
create_user(dir, u, newfmt, fail) ==
    LET un == get_username(u.employee_id) IN
    IF un \in DOMAIN dir THEN [dir |-> dir, success |-> FALSE]
    ELSE IF fail THEN [dir |-> dir, success |-> FALSE]
    ELSE [dir |-> dir @@ (un :> [email |-> u.email,
                                 first_name |-> new_first_name(u, newfmt),
                                 last_name |-> new_last_name(u),
                                 display_name |-> new_display_name(u, newfmt),
                                 groups |-> {}]),
          success |-> TRUE]

\* the updates_needed of UserManager.update_user
updates_needed(cur, u, newfmt) ==
    \/ cur.display_name # new_display_name(u, newfmt)
    \/ cur.first_name # new_first_name(u, newfmt)
    \/ cur.last_name # new_last_name(u)
    \/ cur.email # u.email

\* UserManager.update_user
update_user(dir, u, newfmt, fail) ==
    LET un == get_username(u.employee_id) IN
    IF un \notin DOMAIN dir THEN [dir |-> dir, success |-> FALSE]
    ELSE IF ~updates_needed(dir[un], u, newfmt) THEN [dir |-> dir, success |-> TRUE]
    ELSE IF fail THEN [dir |-> dir, success |-> FALSE]
    ELSE [dir |-> [dir EXCEPT ![un] = [email |-> u.email,
                                       first_name |-> new_first_name(u, newfmt),
                                       last_name |-> new_last_name(u),
                                       display_name |-> new_display_name(u, newfmt),
                                       groups |-> dir[un].groups]],
          success |-> TRUE]

\* UserManager.delete_user: the memberships are removed first, then the user
delete_user(dir, u, fail) ==
    LET un == get_username(u.employee_id) IN
    IF un \notin DOMAIN dir THEN [dir |-> dir, success |-> FALSE]
    ELSE IF fail THEN [dir |-> [dir EXCEPT ![un].groups = {}], success |-> FALSE]
    ELSE [dir |-> Remove(dir, un), success |-> TRUE]

\* process_single_user: update when the batch's own snapshot holds the
\* username, create otherwise
process_single_user(dir, u, existing_usernames, newfmt, fail) ==
    IF get_username(u.employee_id) \in existing_usernames
        THEN update_user(dir, u, newfmt, fail)
        ELSE create_user(dir, u, newfmt, fail)

\* batch_process_users_concurrent, as far as the directory and the success
\* counts go: every item is processed once, against the snapshot the batch
\* built at its start (the items of one batch have distinct usernames, so
\* the order in which the pool runs them does not change the outcome)
RECURSIVE batch_process_users(_, _, _, _, _, _)
batch_process_users(dir, users, i, existing_usernames, newfmt, failing) ==
    IF i > Len(users) THEN [dir |-> dir, success |-> TRUE]
    ELSE LET r == process_single_user(dir, users[i], existing_usernames, newfmt, i \in failing)
             rest == batch_process_users(r.dir, users, i + 1, existing_usernames, newfmt, failing)
         IN [dir |-> rest.dir, success |-> r.success /\ rest.success]

\* batch_delete_users_concurrent, likewise
RECURSIVE batch_delete_users(_, _, _, _)
batch_delete_users(dir, users, i, failing) ==
    IF i > Len(users) THEN [dir |-> dir, success |-> TRUE]
    ELSE LET r == delete_user(dir, users[i], i \in failing)
             rest == batch_delete_users(r.dir, users, i + 1, failing)
         IN [dir |-> rest.dir, success |-> r.success /\ rest.success]

(***************************************************************************)
(* group_manager.py: subscriptions.                                        *)
(***************************************************************************)
\* update_user_subscriptions without the restriction of the removals to the
\* managed groups: every group outside the target set is removed
update_user_subscriptions_RemoveAll(dir, u, failing) ==
    LET un == get_username(u.employee_id)
        target_groups == get_target_groups(u.subscription_type)
        current_groups == IF un \in DOMAIN dir THEN dir[un].groups ELSE {}
        groups_to_add == target_groups \ current_groups
        groups_to_remove == current_groups \ target_groups
    IN IF un \notin DOMAIN dir
       THEN [dir |-> dir, success |-> groups_to_add = {}]
       ELSE [dir |-> [dir EXCEPT ![un].groups =
                         (@ \cup (groups_to_add \ failing)) \ (groups_to_remove \ failing)],
             success |-> (groups_to_add \cup groups_to_remove) \cap failing = {}]

\* GroupManager.update_user_subscriptions; failing is the set of groups whose
\* add or remove call fails
update_user_subscriptions(dir, u, failing) ==
    LET un == get_username(u.employee_id)
        target_groups == get_target_groups(u.subscription_type)
        current_groups == IF un \in DOMAIN dir
                              THEN dir[un].groups \cap all_managed_groups ELSE {}
        groups_to_add == target_groups \ current_groups
        groups_to_remove == (current_groups \cap all_managed_groups) \ target_groups
    IN IF un \notin DOMAIN dir
       THEN \* add_user_to_group reports "user does not exist" for each group
            [dir |-> dir, success |-> groups_to_add = {}]
       ELSE [dir |-> [dir EXCEPT ![un].groups =
                         (@ \cup (groups_to_add \ failing)) \ (groups_to_remove \ failing)],
             success |-> (groups_to_add \cup groups_to_remove) \cap failing = {}]

\* GroupManager.get_user_current_groups
get_user_current_groups(dir, un) ==
    IF un \in DOMAIN dir THEN dir[un].groups \cap all_managed_groups ELSE {}

\* the groups batch_update_subscriptions compares with the target: the
\* cached ones when the shared cache holds the user, the live ones otherwise
CurrentGroupsFor(dir, cache, un) ==
    IF \E i \in DOMAIN cache : cache[i].username = un
        THEN (CHOOSE x \in Range(cache) : x.username = un).groups
        ELSE get_user_current_groups(dir, un)

\* GroupManager.batch_update_subscriptions with a shared cache; failing is a
\* set of <<index, group>> pairs
RECURSIVE batch_update_subscriptions(_, _, _, _, _)
batch_update_subscriptions(dir, users, i, cache, failing) ==
    IF i > Len(users) THEN [dir |-> dir, success |-> TRUE]
    ELSE LET u == users[i]
             un == get_username(u.employee_id)
             r == IF CurrentGroupsFor(dir, cache, un) # get_target_groups(u.subscription_type)
                      THEN update_user_subscriptions(dir, u, { g \in AllGroups : <<i, g>> \in failing })
                      ELSE [dir |-> dir, success |-> TRUE]
             rest == batch_update_subscriptions(r.dir, users, i + 1, cache, failing)
         IN [dir |-> rest.dir, success |-> r.success /\ rest.success]

(***************************************************************************)
(* main.py: one reconciliation run in sync mode                            *)
(* (process_subscription_file, the sync_users branch), followed by the     *)
(* planning step of the next run.                                          *)
(***************************************************************************)
\* the sets of failing remote mutations a batch may meet
FaultSets(candidates) ==
    { F \in SUBSET candidates : faults + Cardinality(F) <= MaxFaults }

\* the items of a process batch that issue a remote mutation
IssuingProcess(dir, users, existing_usernames, newfmt) ==
    { i \in DOMAIN users :
        LET un == get_username(users[i].employee_id) IN
        IF un \in existing_usernames
            THEN un \in DOMAIN dir /\ updates_needed(dir[un], users[i], newfmt)
            ELSE un \notin DOMAIN dir }

\* the <<item, group>> membership calls a subscription batch issues
IssuingSubscriptions(dir, users, cache) ==
    { p \in (DOMAIN users) \X all_managed_groups :
        LET u == users[p[1]]
            un == get_username(u.employee_id)
            target == get_target_groups(u.subscription_type)
        IN /\ un \in DOMAIN dir
           /\ CurrentGroupsFor(dir, cache, un) # target
           /\ (p[2] \in target) # (p[2] \in dir[un].groups) }

(***************************************************************************)
(* batch_process_users_concurrent (and batch_delete_users_concurrent, which *)
(* has the same shape): a calling thread that submits, collects and then    *)
(* falls back to a serial loop, and a pool of workers.                      *)
(***************************************************************************)
Items == 1..MaxItems

\* what a worker calls for an item: the manager's own create_user /
\* update_user / delete_user, or any callable bound in their place
OpImpls == {"user_manager", "callable"}

\* how a call through AWSClient._retry_api_call ends
GatewayOutcomes == {"ok", "terminal", "throttling_exhausted", "error_exhausted"}

\* how a callable ends: it returns a result or raises
CallableOutcomes == {"ok", "fail", "raise_rate_limit", "raise_aws_error", "raise_exception"}

\* create_user 260-270, update_user 393-403, delete_user 877-887: every
\* exception of the gateway call is caught and returned as a failed result
user_operation(g) == IF g = "ok" THEN "ok" ELSE "fail"

\* the pairs <<gateway outcome, outcome of the operation>> an item can get
OpOutcomes(impl) ==
    IF impl = "user_manager"
        THEN { <<g, user_operation(g)>> : g \in GatewayOutcomes }
        ELSE { <<"none", o>> : o \in CallableOutcomes }

\* process_single_user 516-565: the handlers around the operation
handle_outcome(out) ==
    CASE out \in {"ok", "fail"} ->
            [raises |-> FALSE, sets_event |-> FALSE, success |-> (out = "ok")]
      [] out = "raise_rate_limit" ->
            [raises |-> TRUE, sets_event |-> TRUE, success |-> FALSE]
      [] OTHER ->
            [raises |-> FALSE, sets_event |-> FALSE, success |-> FALSE]

OperationResult(item, success, via) == [item |-> item, success |-> success, via |-> via]

Running == { i \in Items : task[i] \in {"running", "flagged"} }

\* the with block's exit: shutdown(wait=True)
PoolDrained_NoWait == TRUE

PoolDrained == \A i \in Items : task[i] \in {"unsubmitted", "returned", "raised"}

\* line 622: remaining_users = users[len(operation_results):]
remaining_from_Submitted(results, submitted) == submitted + 1

remaining_from(results, submitted) == Len(results) + 1

ExecIdle ==
    /\ op_impl = "callable"
    /\ max_workers = 1
    /\ n_users = 0
    /\ ex_pc = "idle"
    /\ ex_i = 1
    /\ task = [i \in Items |-> "unsubmitted"]
    /\ task_out = [i \in Items |-> FALSE]
    /\ gw = [i \in Items |-> "none"]
    /\ rate_limit_event = FALSE
    /\ collect_i = 1
    /\ operation_results = <<>>
    /\ successful_operations = 0
    /\ failed_operations = 0
    /\ calls = [i \in Items |-> 0]
    /\ submitted_with_flag = {}
    /\ serial_i = 1
    /\ serial_busy = FALSE
    /\ show_progress = FALSE

\* the call has passed line 508 without a tracker: show_progress is false
ExecInit ==
    /\ op_impl \in OpImpls
    /\ max_workers \in 1..MaxPoolSize
    /\ n_users \in 0..MaxItems
    /\ ex_pc = "check"
    /\ ex_i = 1
    /\ task = [i \in Items |-> "unsubmitted"]
    /\ task_out = [i \in Items |-> FALSE]
    /\ gw = [i \in Items |-> "none"]
    /\ rate_limit_event = FALSE
    /\ collect_i = 1
    /\ operation_results = <<>>
    /\ successful_operations = 0
    /\ failed_operations = 0
    /\ calls = [i \in Items |-> 0]
    /\ submitted_with_flag = {}
    /\ serial_i = 1
    /\ serial_busy = FALSE
    /\ show_progress = FALSE

\* progress_tracker.py 23: the positional parameters of
\* ProgressTracker.__init__ after self: total, phase, show_progress
init_parameters == <<"total", "phase", "show_progress">>

\* 508: the arguments of the call ProgressTracker(len(users), "用户处理",
\* show_progress, self.config)
init_arguments == <<"len(users)", "phase", "show_progress", "self.config">>

\* the call of a function binds its positional arguments, or raises TypeError
\* when there are more of them than parameters
binds(arguments, parameters) == Len(arguments) <= Len(parameters)

\* batch_process_users_concurrent is entered, for either value of show_progress
ProgressInit ==
    /\ op_impl \in OpImpls
    /\ max_workers \in 1..MaxPoolSize
    /\ n_users \in 0..MaxItems
    /\ ex_pc = "tracker"
    /\ ex_i = 1
    /\ task = [i \in Items |-> "unsubmitted"]
    /\ task_out = [i \in Items |-> FALSE]
    /\ gw = [i \in Items |-> "none"]
    /\ rate_limit_event = FALSE
    /\ collect_i = 1
    /\ operation_results = <<>>
    /\ successful_operations = 0
    /\ failed_operations = 0
    /\ calls = [i \in Items |-> 0]
    /\ submitted_with_flag = {}
    /\ serial_i = 1
    /\ serial_busy = FALSE
    /\ show_progress \in BOOLEAN

\* 507-508: progress_tracker = ProgressTracker(...) if show_progress else None
CreateTracker ==
    /\ ex_pc = "tracker"
    /\ ex_pc' = IF show_progress /\ ~binds(init_arguments, init_parameters)
                    THEN "raised" ELSE "check"
    /\ UNCHANGED <<show_progress, op_impl, max_workers, n_users, ex_i, task, task_out, gw,
                   rate_limit_event, collect_i, operation_results, successful_operations,
                   failed_operations, calls, submitted_with_flag, serial_i, serial_busy>>
    /\ UNCHANGED notExec

\* 571-575: the loop takes the next user and tests the event
SubmitCheck ==
    /\ ex_pc = "check"
    /\ ex_pc' = IF ex_i > n_users \/ rate_limit_event THEN "collect" ELSE "submit"
    /\ UNCHANGED <<show_progress, op_impl, max_workers, n_users, ex_i, task, task_out, gw,
                   rate_limit_event, collect_i, operation_results, successful_operations,
                   failed_operations, calls, submitted_with_flag, serial_i, serial_busy>>
    /\ UNCHANGED notExec

\* 576-577: executor.submit, futures.append
Submit ==
    /\ ex_pc = "submit"
    /\ task' = [task EXCEPT ![ex_i] = "queued"]
    /\ submitted_with_flag' = IF rate_limit_event THEN submitted_with_flag \cup {ex_i}
                              ELSE submitted_with_flag
    /\ ex_i' = ex_i + 1
    /\ ex_pc' = "check"
    /\ UNCHANGED <<show_progress, op_impl, max_workers, n_users, task_out, gw,
                   rate_limit_event, collect_i, operation_results, successful_operations,
                   failed_operations, calls, serial_i, serial_busy>>
    /\ UNCHANGED notExec

\* a free worker of the pool takes the oldest queued task and enters
\* process_single_user
WorkerStart(i) ==
    /\ task[i] = "queued"
    /\ \A j \in Items : task[j] = "queued" => i <= j
    /\ Cardinality(Running) < max_workers
    /\ task' = [task EXCEPT ![i] = "running"]
    /\ calls' = [calls EXCEPT ![i] = @ + 1]
    /\ UNCHANGED <<show_progress, op_impl, max_workers, n_users, ex_pc, ex_i, task_out, gw,
                   rate_limit_event, collect_i, operation_results, successful_operations,
                   failed_operations, submitted_with_flag, serial_i, serial_busy>>
    /\ UNCHANGED notExec

\* 522-565 in a worker: the operation ends; the handlers return a result or
\* set the event
WorkerFinish(i) ==
    /\ task[i] = "running"
    /\ \E o \in OpOutcomes(op_impl) :
          LET h == handle_outcome(o[2]) IN
          /\ gw' = [gw EXCEPT ![i] = o[1]]
          /\ task' = [task EXCEPT ![i] = IF h.raises THEN "flagged" ELSE "returned"]
          /\ task_out' = [task_out EXCEPT ![i] = h.success]
          /\ rate_limit_event' = (rate_limit_event \/ h.sets_event)
    /\ UNCHANGED <<show_progress, op_impl, max_workers, n_users, ex_pc, ex_i,
                   collect_i, operation_results, successful_operations,
                   failed_operations, calls, submitted_with_flag, serial_i, serial_busy>>
    /\ UNCHANGED notExec

\* 541: raise, the future gets the exception
WorkerRaise(i) ==
    /\ task[i] = "flagged"
    /\ task' = [task EXCEPT ![i] = "raised"]
    /\ UNCHANGED <<show_progress, op_impl, max_workers, n_users, ex_pc, ex_i, task_out, gw,
                   rate_limit_event, collect_i, operation_results, successful_operations,
                   failed_operations, calls, submitted_with_flag, serial_i, serial_busy>>
    /\ UNCHANGED notExec

\* the number of futures the submission loop appended
Submitted == ex_i - 1

\* 588-593, 607-609, 628-632, 646-647: a result is appended and counted
AppendResult(result) ==
    /\ operation_results' = Append(operation_results, result)
    /\ successful_operations' = successful_operations + (IF result.success THEN 1 ELSE 0)
    /\ failed_operations' = failed_operations + (IF result.success THEN 0 ELSE 1)

\* 580: the collection loop has gone through futures
CollectEnd ==
    /\ ex_pc = "collect"
    /\ collect_i > Submitted
    /\ ex_pc' = "join"
    /\ UNCHANGED <<show_progress, op_impl, max_workers, n_users, ex_i, task, task_out, gw,
                   rate_limit_event, collect_i, operation_results, successful_operations,
                   failed_operations, calls, submitted_with_flag, serial_i, serial_busy>>
    /\ UNCHANGED notExec

\* 587-593: future.result returns the worker's result
CollectResult ==
    /\ ex_pc = "collect"
    /\ collect_i <= Submitted
    /\ task[collect_i] = "returned"
    /\ AppendResult(OperationResult(collect_i, task_out[collect_i], "pool"))
    /\ collect_i' = collect_i + 1
    /\ UNCHANGED <<show_progress, op_impl, max_workers, n_users, ex_pc, ex_i, task, task_out, gw,
                   rate_limit_event, calls, submitted_with_flag, serial_i, serial_busy>>
    /\ UNCHANGED notExec

CollectTimeout_NoResult ==
    /\ ex_pc = "collect"
    /\ collect_i <= Submitted
    /\ task[collect_i] \in {"queued", "running", "flagged"}
    /\ collect_i' = collect_i + 1
    /\ UNCHANGED <<show_progress, op_impl, max_workers, n_users, ex_pc, ex_i, task, task_out, gw,
                   rate_limit_event, operation_results, successful_operations,
                   failed_operations, calls, submitted_with_flag, serial_i, serial_busy>>
    /\ UNCHANGED notExec

\* 598-609: future.result times out while the task is queued or running
CollectTimeout ==
    /\ ex_pc = "collect"
    /\ collect_i <= Submitted
    /\ task[collect_i] \in {"queued", "running", "flagged"}
    /\ AppendResult(OperationResult(collect_i, FALSE, "timeout"))
    /\ collect_i' = collect_i + 1
    /\ UNCHANGED <<show_progress, op_impl, max_workers, n_users, ex_pc, ex_i, task, task_out, gw,
                   rate_limit_event, calls, submitted_with_flag, serial_i, serial_busy>>
    /\ UNCHANGED notExec

\* 614-618: future.result raises the worker's exception
CollectException ==
    /\ ex_pc = "collect"
    /\ collect_i <= Submitted
    /\ task[collect_i] = "raised"
    /\ IF rate_limit_event
          THEN ex_pc' = "join" /\ collect_i' = collect_i
          ELSE ex_pc' = ex_pc /\ collect_i' = collect_i + 1
    /\ UNCHANGED <<show_progress, op_impl, max_workers, n_users, ex_i, task, task_out, gw,
                   rate_limit_event, operation_results, successful_operations,
                   failed_operations, calls, submitted_with_flag, serial_i, serial_busy>>
    /\ UNCHANGED notExec

\* 621: if rate_limit_event.is_set()
serial_fallback_Never == FALSE

serial_fallback == rate_limit_event

\* the with block ends (the pool is shut down), then 621-623
Join ==
    /\ ex_pc = "join"
    /\ PoolDrained
    /\ IF serial_fallback
          THEN /\ ex_pc' = "serial"
               /\ serial_i' = remaining_from(operation_results, Submitted)
          ELSE /\ ex_pc' = "done"
               /\ serial_i' = serial_i
    /\ UNCHANGED <<show_progress, op_impl, max_workers, n_users, ex_i, task, task_out, gw,
                   rate_limit_event, collect_i, operation_results, successful_operations,
                   failed_operations, calls, submitted_with_flag, serial_busy>>
    /\ UNCHANGED notExec

\* 625: for user in remaining_users, taking every other user
next_remaining_Skip(i) == i + 2

\* 625: for user in remaining_users
next_remaining(i) == i + 1

\* 625-627: the calling thread enters process_single_user for the next
\* remaining user
SerialStart ==
    /\ ex_pc = "serial"
    /\ ~serial_busy
    /\ serial_i <= n_users
    /\ serial_busy' = TRUE
    /\ calls' = [calls EXCEPT ![serial_i] = @ + 1]
    /\ UNCHANGED <<show_progress, op_impl, max_workers, n_users, ex_pc, ex_i, task, task_out, gw,
                   rate_limit_event, collect_i, operation_results, successful_operations,
                   failed_operations, submitted_with_flag, serial_i>>
    /\ UNCHANGED notExec

\* 627-650: process_single_user returns or raises in the calling thread
SerialFinish ==
    /\ ex_pc = "serial"
    /\ serial_busy
    /\ \E o \in OpOutcomes(op_impl) :
          LET h == handle_outcome(o[2]) IN
          /\ gw' = [gw EXCEPT ![serial_i] = o[1]]
          /\ rate_limit_event' = (rate_limit_event \/ h.sets_event)
          /\ AppendResult(OperationResult(serial_i, h.success, "serial"))
    /\ serial_busy' = FALSE
    /\ serial_i' = next_remaining(serial_i)
    /\ UNCHANGED <<show_progress, op_impl, max_workers, n_users, ex_pc, ex_i, task, task_out,
                   collect_i, calls, submitted_with_flag>>
    /\ UNCHANGED notExec

\* 625, 656-668: the serial loop ends and the BatchResult is built
SerialEnd ==
    /\ ex_pc = "serial"
    /\ ~serial_busy
    /\ serial_i > n_users
    /\ ex_pc' = "done"
    /\ UNCHANGED <<show_progress, op_impl, max_workers, n_users, ex_i, task, task_out, gw,
                   rate_limit_event, collect_i, operation_results, successful_operations,
                   failed_operations, calls, submitted_with_flag, serial_i, serial_busy>>
    /\ UNCHANGED notExec

\* 656-661
BatchResult ==
    [total_operations |-> n_users,
     successful_operations |-> successful_operations,
     failed_operations |-> failed_operations,
     operation_results |-> operation_results]

(***************************************************************************)
(* AWSClient._retry_api_call: one wrapped call under the retry loop.       *)
(***************************************************************************)
\* aws_client.py 196-201
non_retryable_errors_NoConflict ==
    {"ValidationException", "ResourceNotFoundException", "AccessDeniedException"}

non_retryable_errors ==
    {"ValidationException", "ResourceNotFoundException", "ConflictException",
     "AccessDeniedException"}

\* the error codes a ClientError of func carries
ClientErrorCodes ==
    {"ValidationException", "ResourceNotFoundException", "ConflictException",
     "AccessDeniedException", "ThrottlingException", "TooManyRequestsException",
     "RequestLimitExceeded", "Throttling", "SlowDown", "InternalServerException"}

\* how one call of func ends: it returns, raises a ClientError with a code,
\* or raises another exception
FuncOutcomes == {"ok", "Exception"} \cup ClientErrorCodes

\* RetryConfig defaults
initial_delay == 1

backoff_factor == 2

delay_Constant(attempt) == initial_delay

\* 206, 215: delay = initial_delay * (backoff_factor ** attempt)
delay(attempt) == initial_delay * (backoff_factor ^ attempt)

\* error_handler.py 32-37: the handler's own list
handler_non_retryable_errors ==
    {"ValidationException", "ResourceNotFoundException", "ConflictException",
     "AccessDeniedException"}

\* error_handler.py 28-47: whether processing should go on after the error
handle_aws_api_error(o) ==
    IF o \in ClientErrorCodes THEN o \notin handler_non_retryable_errors ELSE TRUE

\* 191-217: what the loop does after a call of func ended with o
after_call(o, attempt, max_attempts) ==
    CASE o = "ok" -> "returned"
      [] o \in ClientErrorCodes ->
            IF o \in non_retryable_errors \/ attempt = max_attempts - 1
                THEN "raised" ELSE "sleep"
      [] OTHER ->
            IF attempt = max_attempts - 1 THEN "raised" ELSE "sleep"

\* aws_client.py 94-102: AWSClient._is_rate_limit_error, on the code of a
\* ClientError
rate_limit_codes ==
    {"ThrottlingException", "TooManyRequestsException", "RequestLimitExceeded",
     "Throttling", "SlowDown"}

\* the two retry loops of AWSClient: _retry_api_call, which every gateway
\* method goes through, and call_aws_api_with_retry
RetryFuncs == {"_retry_api_call", "call_aws_api_with_retry"}

\* 140: wait_time = 2 ** attempt
wait_time(attempt) == 2 ^ attempt

\* 120-161: what call_aws_api_with_retry does after a call of api_func ended
\* with o
after_call_with_retry(o, attempt, max_retries) ==
    CASE o = "ok" -> "returned"
      [] o \in rate_limit_codes ->
            IF attempt < max_retries - 1 THEN "sleep" ELSE "raised"
      [] OTHER -> "raised"

\* the AWSClientError a loop raises: the text its message starts with, and
\* the error code the message holds
AWSClientError(text, code) == [text |-> text, code |-> code]

NoError == AWSClientError("none", "none")

\* 203, 214: the errors of _retry_api_call
retry_api_call_error(o) ==
    IF o \in ClientErrorCodes
        THEN AWSClientError("api_call_failed", o)
        ELSE AWSClientError("api_call_exception", "none")

\* 150-161: the errors of call_aws_api_with_retry
call_with_retry_error(o) ==
    CASE o \in rate_limit_codes -> AWSClientError("rate_limit_retries_failed", o)
      [] o \in ClientErrorCodes -> AWSClientError("api_call_failed", o)
      [] OTHER -> AWSClientError("api_call_exception", "none")

\* an error code as the pieces of its text
CodeText(code) ==
    CASE code = "ThrottlingException" -> <<"Throttling", "Exception">>
      [] code = "Throttling" -> <<"Throttling">>
      [] code = "TooManyRequestsException" -> <<"TooManyRequests", "Exception">>
      [] code = "RequestLimitExceeded" -> <<"RequestLimit", "Exceeded">>
      [] code = "SlowDown" -> <<"SlowDown">>
      [] code = "ValidationException" -> <<"Validation", "Exception">>
      [] code = "ResourceNotFoundException" -> <<"ResourceNotFound", "Exception">>
      [] code = "ConflictException" -> <<"Conflict", "Exception">>
      [] code = "AccessDeniedException" -> <<"AccessDenied", "Exception">>
      [] code = "InternalServerException" -> <<"InternalServer", "Exception">>
      [] OTHER -> <<>>

\* str(exception): the text of the message, the code, the remote message
ErrorStr(e) == <<e.text>> \o CodeText(e.code) \o <<" - ", "message">>

\* sub in s, for strings
Contains(s, sub) ==
    \E i \in 1..(Len(s) - Len(sub) + 1) : SubSeq(s, i, i + Len(sub) - 1) = sub

\* user_manager.py 680
error_codes == {"ThrottlingException", "TooManyRequestsException", "RequestLimitExceeded"}

\* user_manager.py 670-684: UserManager._is_rate_limit_error
is_rate_limit_error(exception) ==
    \E code \in error_codes : Contains(ErrorStr(exception), CodeText(code))

RetryIdle ==
    /\ rt_max_attempts = 1
    /\ rt_attempt = 0
    /\ rt_pc = "idle"
    /\ rt_outcomes = <<>>
    /\ rt_sleeps = <<>>
    /\ rt_func = "_retry_api_call"
    /\ rt_error = NoError

\* config.py 176-178: retry.max_attempts is copied from the configuration
\* file unchecked (validate_config has no caller); max_retries is an argument
RetryInit ==
    /\ rt_max_attempts \in 0..MaxAttempts
    /\ rt_attempt = 0
    /\ rt_pc = "call"
    /\ rt_outcomes = <<>>
    /\ rt_sleeps = <<>>
    /\ rt_func \in RetryFuncs
    /\ rt_error = NoError

\* 181-217: func is called and the loop returns, raises or goes on to sleep
RetryCall ==
    /\ rt_pc = "call"
    /\ rt_attempt < rt_max_attempts
    /\ \E o \in FuncOutcomes :
          /\ rt_outcomes' = Append(rt_outcomes, o)
          /\ rt_pc' = IF rt_func = "_retry_api_call"
                          THEN after_call(o, rt_attempt, rt_max_attempts)
                          ELSE after_call_with_retry(o, rt_attempt, rt_max_attempts)
          /\ rt_error' = IF rt_pc' # "raised" THEN rt_error
                         ELSE IF rt_func = "_retry_api_call"
                              THEN retry_api_call_error(o)
                              ELSE call_with_retry_error(o)
    /\ UNCHANGED <<rt_max_attempts, rt_attempt, rt_sleeps, rt_func>>
    /\ UNCHANGED notRetry

\* 206-208, 215-217: time.sleep(delay), then the next attempt
RetrySleep ==
    /\ rt_pc = "sleep"
    /\ rt_sleeps' = Append(rt_sleeps, IF rt_func = "_retry_api_call"
                                          THEN delay(rt_attempt)
                                          ELSE wait_time(rt_attempt))
    /\ rt_attempt' = rt_attempt + 1
    /\ rt_pc' = "call"
    /\ UNCHANGED <<rt_max_attempts, rt_outcomes, rt_func, rt_error>>
    /\ UNCHANGED notRetry

\* 182, 219: range(max_attempts) is used up without a return or a raise:
\* _retry_api_call ends and returns None; 163-164: call_aws_api_with_retry
\* raises
RetryLoopEnd ==
    /\ rt_pc = "call"
    /\ rt_attempt >= rt_max_attempts
    /\ IF rt_func = "_retry_api_call"
          THEN /\ rt_pc' = "returned_none"
               /\ UNCHANGED rt_error
          ELSE /\ rt_pc' = "raised"
               /\ rt_error' = AWSClientError("api_call_failed_after_retries", "none")
    /\ UNCHANGED <<rt_max_attempts, rt_attempt, rt_outcomes, rt_sleeps, rt_func>>
    /\ UNCHANGED notRetry

(***************************************************************************)
(* data_cache.py: one DataCache object, the threads that call it and the   *)
(* directory its initialize reads through the gateway.                     *)
(***************************************************************************)
Threads == 1..MaxCallers

UserIds == {"u1", "u2"}

GroupIds == {"g1", "g2"}

\* the order in which list_users and list_groups return their items
UserIdOrder == <<"u1", "u2">>

GroupIdOrder == <<"g1", "g2">>

\* group.get('DisplayName')
GroupName(g) == IF g = "g1" THEN kiro_group ELSE qdev_group

\* the items of S in the order of a list
ListOf(S, order) == LET In(x) == x \in S IN SelectSeq(order, In)

\* 84-88: the group name is appended to the list of one member
add_member_Overwrite(index, member_id, group_name) ==
    IF member_id \in DOMAIN index
        THEN [index EXCEPT ![member_id] = <<group_name>>]
        ELSE index @@ (member_id :> <<group_name>>)

add_member(index, member_id, group_name) ==
    IF member_id \in DOMAIN index
        THEN [index EXCEPT ![member_id] = Append(@, group_name)]
        ELSE index @@ (member_id :> <<group_name>>)

\* 83-88: for membership in memberships
RECURSIVE add_members(_, _, _)
add_members(index, memberships, group_name) ==
    IF memberships = <<>> THEN index
    ELSE add_members(add_member(index, Head(memberships), group_name),
                     Tail(memberships), group_name)

\* 134-145, 147-158, 160-168: the accessors
get_user_groups(user_id) ==
    IF user_id \in DOMAIN dc_user_id_to_groups THEN dc_user_id_to_groups[user_id] ELSE <<>>

get_group_name(group_id) ==
    IF group_id \in DOMAIN dc_group_id_to_name THEN dc_group_id_to_name[group_id] ELSE ""

get_all_users == dc_users

\* what a caller gets from the three accessors
AccessorData ==
    [taken |-> TRUE,
     users |-> get_all_users,
     user_groups |-> [u \in UserIds |-> get_user_groups(u)],
     group_names |-> [g \in GroupIds |-> get_group_name(g)]]

NoRead == [taken |-> FALSE]

\* 46: if self._initialized
already_initialized_Never == FALSE

already_initialized == dc_initialized

\* the local variables of one initialize call
ThreadIdle(ops) ==
    [pc |-> "idle", aws_users |-> <<>>, aws_groups |-> <<>>, gi |-> 1,
     list_users_calls |-> 0, list_groups_calls |-> 0, membership_calls |-> <<>>,
     results |-> <<>>, outcome |-> "none", ops_left |-> ops]

\* whether a gateway call succeeds
CallOutcomes == IF dc_faults < MaxCacheFaults THEN BOOLEAN ELSE {TRUE}

CacheIdle ==
    /\ gw_users = {}
    /\ gw_groups = {}
    /\ gw_members = <<>>
    /\ dc_users = <<>>
    /\ dc_group_id_to_name = <<>>
    /\ dc_user_id_to_groups = <<>>
    /\ dc_initialized = FALSE
    /\ dc_lock = 0
    /\ dc_builder = 0
    /\ issuers = {}
    /\ th = [t \in Threads |-> ThreadIdle(0)]
    /\ dc_faults = 0
    /\ first_read = NoRead
    /\ last_read = NoRead

\* 23-30: DataCache.__init__, over every directory of the bounds
CacheInit ==
    /\ gw_users \in SUBSET UserIds
    /\ gw_groups \in SUBSET GroupIds
    /\ gw_members \in [gw_groups -> SUBSET gw_users]
    /\ dc_users = <<>>
    /\ dc_group_id_to_name = <<>>
    /\ dc_user_id_to_groups = <<>>
    /\ dc_initialized = FALSE
    /\ dc_lock = 0
    /\ dc_builder = 0
    /\ issuers = {}
    /\ th = [t \in Threads |-> ThreadIdle(MaxCacheOps)]
    /\ dc_faults = 0
    /\ first_read = NoRead
    /\ last_read = NoRead

\* a thread may start an operation: it is in none and the lock is free
MayStart(t) ==
    /\ th[t].pc = "idle"
    /\ th[t].ops_left > 0
    /\ dc_lock = 0

\* 45-50: initialize takes the lock; on a built cache it warns and returns
InitializeEnter(t) ==
    /\ MayStart(t)
    /\ IF already_initialized
          THEN /\ th' = [th EXCEPT ![t] = [ThreadIdle(th[t].ops_left - 1)
                                              EXCEPT !.outcome = "skipped"]]
               /\ dc_lock' = 0
          ELSE /\ th' = [th EXCEPT ![t] = [ThreadIdle(th[t].ops_left - 1)
                                              EXCEPT !.pc = "list_users"]]
               /\ dc_lock' = t
    /\ UNCHANGED <<gw_users, gw_groups, gw_members, dc_users, dc_group_id_to_name,
                   dc_user_id_to_groups, dc_initialized, dc_builder, issuers, dc_faults,
                   first_read, last_read>>
    /\ UNCHANGED notCache

\* 55: aws_users = aws_client.list_users(); 130-132 when it raises
ListUsers(t) ==
    /\ th[t].pc = "list_users"
    /\ \E ok \in CallOutcomes :
          IF ok
          THEN /\ th' = [th EXCEPT ![t].pc = "list_groups",
                                   ![t].aws_users = ListOf(gw_users, UserIdOrder),
                                   ![t].list_users_calls = @ + 1]
               /\ UNCHANGED <<dc_lock, dc_faults>>
          ELSE /\ th' = [th EXCEPT ![t].pc = "idle", ![t].list_users_calls = @ + 1,
                                   ![t].outcome = "raised"]
               /\ dc_lock' = 0
               /\ dc_faults' = dc_faults + 1
    /\ issuers' = issuers \cup {t}
    /\ UNCHANGED <<gw_users, gw_groups, gw_members, dc_users, dc_group_id_to_name,
                   dc_user_id_to_groups, dc_initialized, dc_builder, first_read, last_read>>
    /\ UNCHANGED notCache

\* 60-68: aws_groups = aws_client.list_groups() and the id-to-name map
ListGroups(t) ==
    /\ th[t].pc = "list_groups"
    /\ \E ok \in CallOutcomes :
          IF ok
          THEN /\ th' = [th EXCEPT ![t].pc = "memberships",
                                   ![t].aws_groups = ListOf(gw_groups, GroupIdOrder),
                                   ![t].list_groups_calls = @ + 1]
               /\ dc_group_id_to_name' =
                     [g \in (DOMAIN dc_group_id_to_name) \cup gw_groups |->
                         IF g \in gw_groups THEN GroupName(g) ELSE dc_group_id_to_name[g]]
               /\ UNCHANGED <<dc_lock, dc_faults>>
          ELSE /\ th' = [th EXCEPT ![t].pc = "idle", ![t].list_groups_calls = @ + 1,
                                   ![t].outcome = "raised"]
               /\ dc_lock' = 0
               /\ dc_faults' = dc_faults + 1
               /\ UNCHANGED dc_group_id_to_name
    /\ UNCHANGED <<gw_users, gw_groups, gw_members, dc_users, issuers,
                   dc_user_id_to_groups, dc_initialized, dc_builder, first_read, last_read>>
    /\ UNCHANGED notCache

\* 70-92: one list_group_memberships call; a call that raises is logged and
\* the loop goes on with the next group
ListGroupMemberships(t) ==
    /\ th[t].pc = "memberships"
    /\ th[t].gi <= Len(th[t].aws_groups)
    /\ LET g == th[t].aws_groups[th[t].gi] IN
       \E ok \in CallOutcomes :
          IF ok
          THEN /\ dc_user_id_to_groups' =
                     add_members(dc_user_id_to_groups,
                                 ListOf(gw_members[g], UserIdOrder), GroupName(g))
               /\ th' = [th EXCEPT ![t].gi = @ + 1,
                                   ![t].membership_calls = Append(@, g),
                                   ![t].results = @ @@ (g :> gw_members[g])]
               /\ UNCHANGED dc_faults
          ELSE /\ th' = [th EXCEPT ![t].gi = @ + 1,
                                   ![t].membership_calls = Append(@, g)]
               /\ dc_faults' = dc_faults + 1
               /\ UNCHANGED dc_user_id_to_groups
    /\ UNCHANGED <<gw_users, gw_groups, gw_members, dc_users, dc_group_id_to_name,
                   dc_initialized, dc_lock, dc_builder, issuers, first_read, last_read>>
    /\ UNCHANGED notCache

\* 112-122: the IAMUser built for one user of aws_users
CachedUser(user_id) == [user_id |-> user_id, groups |-> get_user_groups(user_id)]

\* 94-128: the IAMUser list is built, _initialized = True, the lock is released
BuildUsers(t) ==
    /\ th[t].pc = "memberships"
    /\ th[t].gi > Len(th[t].aws_groups)
    /\ dc_users' = dc_users \o [i \in 1..Len(th[t].aws_users) |->
                                   CachedUser(th[t].aws_users[i])]
    /\ dc_initialized' = TRUE
    /\ dc_builder' = t
    /\ dc_lock' = 0
    /\ th' = [th EXCEPT ![t].pc = "idle", ![t].outcome = "returned"]
    /\ UNCHANGED <<gw_users, gw_groups, gw_members, dc_group_id_to_name,
                   dc_user_id_to_groups, issuers, dc_faults, first_read, last_read>>
    /\ UNCHANGED notCache

\* 134-168: a caller reads through the three accessors, each under the lock
ReadAccessors(t) ==
    /\ MayStart(t)
    /\ first_read' = IF ~first_read.taken /\ dc_initialized THEN AccessorData
                     ELSE first_read
    /\ last_read' = IF first_read'.taken THEN AccessorData ELSE NoRead
    /\ th' = [th EXCEPT ![t].ops_left = @ - 1]
    /\ UNCHANGED <<gw_users, gw_groups, gw_members, dc_users, dc_group_id_to_name,
                   dc_user_id_to_groups, dc_initialized, dc_lock, dc_builder, issuers,
                   dc_faults>>
    /\ UNCHANGED notCache

\* 180-187: clear
Clear(t) ==
    /\ MayStart(t)
    /\ dc_users' = <<>>
    /\ dc_group_id_to_name' = <<>>
    /\ dc_user_id_to_groups' = <<>>
    /\ dc_initialized' = FALSE
    /\ dc_builder' = 0
    /\ issuers' = {}
    /\ th' = [th EXCEPT ![t].ops_left = @ - 1]
    /\ UNCHANGED <<gw_users, gw_groups, gw_members, dc_lock, dc_faults,
                   first_read, last_read>>
    /\ UNCHANGED notCache

(***************************************************************************)
(* user_manager.py: one call of _needs_update on a snapshot user.          *)
(***************************************************************************)
\* the lists of group names an IAMUser of the snapshot can carry
GroupLists ==
    {<<>>} \cup { <<g>> : g \in AllGroups } \cup { <<g, h>> : g, h \in AllGroups }

\* the display names a user of the directory can carry
DisplayNames ==
    UNION { { NewDisplayName(e, NameOf(e)), OldDisplayName(NameOf(e)) } : e \in EmployeeIds }

\* models.py: IAMUser as get_all_users returns it
SnapshotUsers ==
    [username : DirUsernames, email : Emails, display_name : DisplayNames,
     groups : GroupLists]

\* 1235: actual_groups = set(iam_user.groups)
actual_groups(iam_user) == [iam_user EXCEPT !.groups = Range(@)]

PredIdle ==
    /\ nu_csv_user = <<>>
    /\ nu_iam_user = <<>>
    /\ nu_newfmt = TRUE
    /\ nu_pc = "idle"
    /\ nu_result = FALSE

PredInit ==
    /\ nu_csv_user \in DesiredRecords
    /\ nu_iam_user \in SnapshotUsers
    /\ nu_newfmt \in BOOLEAN
    /\ nu_pc = "call"
    /\ nu_result = FALSE

\* 1204-1244: the call returns
NeedsUpdateCall ==
    /\ nu_pc = "call"
    /\ nu_result' = needs_update(nu_csv_user, actual_groups(nu_iam_user), nu_newfmt)
    /\ nu_pc' = "done"
    /\ UNCHANGED <<nu_csv_user, nu_iam_user, nu_newfmt>>
    /\ UNCHANGED notPred

(***************************************************************************)
(* user_attribute_upgrader.py: one call of upgrade_user_attributes.        *)
(***************************************************************************)
\* a username of the old kind: the employee id with no '@'
RawUsername == <<"E2">>

\* the tokens the class [A-Za-z0-9]+ matches
AlnumTokens == {"E1", "E2"}

\* data_validator.py 23: the tokens the class [A-Za-z0-9_-] matches
EmployeeIdTokens == AlnumTokens \cup {"E_3"}

\* data_validator.py 108-125: validate_employee_id
validate_employee_id(employee_id) ==
    /\ employee_id # <<>>
    /\ \A i \in DOMAIN employee_id : employee_id[i] \in EmployeeIdTokens

\* the employee ids of the rosters of an upgrade
UpgradeEmployeeIds == EmployeeIds \cup {<<"E_3">>}

UpgradeUsernames ==
    DirUsernames \cup {RawUsername} \cup { get_username(e) : e \in UpgradeEmployeeIds }

\* the upgrade reads no group: the users of the directory carry none
UpgradeRecordsFor(un) == { r \in DirUserRecordsFor(un) : r.groups = {} }

UpgradeDirectories(n) ==
    UNION { { d \in [S -> UNION { UpgradeRecordsFor(un) : un \in S }] :
                \A un \in S : d[un] \in UpgradeRecordsFor(un) } :
            S \in { T \in SUBSET UpgradeUsernames : Cardinality(T) <= n } }

\* the subscription type plays no part in the upgrade
UpgradeRecords ==
    { UserSubscription(e, NameOf(e), EmailOf(e), "KIRO") :
        e \in { x \in UpgradeEmployeeIds : validate_employee_id(x) } }

\* rosters the validator lets through: valid employee ids, none twice
UpgradeRosters(n) ==
    UNION { { r \in [1..k -> UpgradeRecords] :
                \A i, j \in 1..k : i # j => r[i].employee_id # r[j].employee_id } :
            k \in 0..n }

\* 220-240: _extract_employee_id; <<>> stands for None
extract_employee_id(username) ==
    LET n == Len(username) IN
    IF /\ n >= 3
       /\ EndsWith(username, username_suffix)
       /\ \A i \in 1..(n - 2) : username[i] \in AlnumTokens
        THEN SubSeq(username, 1, n - 2)
    ELSE IF username # <<>> /\ \A i \in DOMAIN username : username[i] # "@"
        THEN username
    ELSE <<>>

\* 242-275: _needs_upgrade
needs_upgrade(iam_user, csv_user) ==
    \/ iam_user.username # get_username(csv_user.employee_id)
    \/ iam_user.display_name # NewDisplayName(csv_user.employee_id, csv_user.name)
    \/ iam_user.first_name # csv_user.employee_id
    \/ iam_user.last_name # csv_user.name
    \/ iam_user.email # csv_user.email

\* one entry of the Operations list of update_user
Operation(path, value) == [AttributePath |-> path, AttributeValue |-> value]

\* 97-170: convert_to_new_format
convert_to_new_format(iam_user, csv_user) ==
    LET new_first == csv_user.employee_id
        new_last == csv_user.name
        new_display == NewDisplayName(csv_user.employee_id, csv_user.name)
        operations ==
            (IF iam_user.first_name # new_first
                THEN <<Operation("name.givenName", new_first)>> ELSE <<>>)
            \o (IF iam_user.last_name # new_last
                THEN <<Operation("name.familyName", new_last)>> ELSE <<>>)
            \o (IF iam_user.display_name # new_display
                THEN <<Operation("displayName", new_display)>> ELSE <<>>)
            \o (IF iam_user.email # csv_user.email
                THEN <<Operation("emails", csv_user.email)>> ELSE <<>>)
    IN [user_id |-> iam_user.username,
        username |-> iam_user.username,
        operations |-> operations,
        new_attributes |-> [username |-> get_username(csv_user.employee_id),
                            first_name |-> new_first,
                            last_name |-> new_last,
                            display_name |-> new_display,
                            email |-> csv_user.email]]

\* the operations of the pairs of a plan, counted
RECURSIVE count_operations(_)
count_operations(pairs) ==
    IF pairs = <<>> THEN 0
    ELSE Len(convert_to_new_format(Head(pairs)[1], Head(pairs)[2]).operations)
         + count_operations(Tail(pairs))

\* 172-218: generate_upgrade_plan
generate_upgrade_plan(iam_users, csv_users) ==
    LET ids == { csv_users[i].employee_id : i \in DOMAIN csv_users }
        \* csv_user_map: a later record of the same id replaces an earlier one
        csv_user_map(e) ==
            csv_users[CHOOSE i \in DOMAIN csv_users :
                        /\ csv_users[i].employee_id = e
                        /\ \A j \in DOMAIN csv_users :
                              csv_users[j].employee_id = e => j <= i]
        Selected(iam_user) ==
            LET employee_id == extract_employee_id(iam_user.username) IN
            /\ employee_id # <<>>
            /\ employee_id \in ids
            /\ needs_upgrade(iam_user, csv_user_map(employee_id))
        selected == SelectSeq(iam_users, Selected)
        users_to_upgrade ==
            [i \in 1..Len(selected) |->
                <<selected[i], csv_user_map(extract_employee_id(selected[i].username))>>]
        total_operations_ == count_operations(users_to_upgrade)
    IN [users_to_upgrade |-> users_to_upgrade,
        total_operations |-> total_operations_,
        estimated_time |-> total_operations_ * 2]

EmptyUpgradePlan == [users_to_upgrade |-> <<>>, total_operations |-> 0, estimated_time |-> 0]

\* models.py: UpgradeResult; returned says that the call has returned it
UpgradeResult(returned, total, successful, failed, operations, plan) ==
    [returned |-> returned,
     total_users |-> total,
     successful_upgrades |-> successful,
     failed_upgrades |-> failed,
     upgrade_operations |-> operations,
     upgrade_plan |-> plan]

NoUpgradeResult == UpgradeResult(FALSE, 0, 0, 0, <<>>, EmptyUpgradePlan)

\* the directory after update_user with the operations
RECURSIVE apply_operations(_, _)
apply_operations(record, operations) ==
    IF operations = <<>> THEN record
    ELSE LET op == Head(operations)
             next ==
                CASE op.AttributePath = "name.givenName" ->
                        [record EXCEPT !.first_name = op.AttributeValue]
                  [] op.AttributePath = "name.familyName" ->
                        [record EXCEPT !.last_name = op.AttributeValue]
                  [] op.AttributePath = "displayName" ->
                        [record EXCEPT !.display_name = op.AttributeValue]
                  [] OTHER -> [record EXCEPT !.email = op.AttributeValue]
         IN apply_operations(next, Tail(operations))

\* 40: if dry_run
dry_run_return_Never == FALSE

dry_run_return == up_dry_run

\* whether update_user_with_operations succeeds
UpdateOutcomes == IF up_faults < MaxUpgradeFaults THEN BOOLEAN ELSE {TRUE}

\* details of an OperationResult that holds no 'new_attributes'
NoAttributes ==
    [username |-> <<>>, first_name |-> <<>>, last_name |-> <<>>, display_name |-> <<>>,
     email |-> ""]

\* models.py 107-118: the OperationResult of one upgrade; has_details says
\* that details holds 'new_attributes'
UpgradeOperation(target, success, message, has_details, new_attributes) ==
    [target |-> target, success |-> success, message |-> message,
     has_details |-> has_details, new_attributes |-> new_attributes]

\* 398-403: verification_stats
EmptyStats ==
    [total_verified |-> 0, passed_verification |-> 0, failed_verification |-> 0,
     verification_errors |-> <<>>]

VerifyIdle ==
    /\ vf_i = 1
    /\ vf_stats = EmptyStats
    /\ vf_log = <<>>
    /\ vf_faults = 0
    /\ vf_edits = 0

UpgradeIdle ==
    /\ VerifyIdle
    /\ up_dir = <<>>
    /\ up_iam_users = <<>>
    /\ up_csv_users = <<>>
    /\ up_dry_run = FALSE
    /\ up_pc = "idle"
    /\ up_plan = EmptyUpgradePlan
    /\ up_i = 1
    /\ up_operations = <<>>
    /\ up_successful = 0
    /\ up_failed = 0
    /\ up_update_calls = <<>>
    /\ up_faults = 0
    /\ up_result = NoUpgradeResult

\* main.py 459-499: the users are listed, then upgrade_user_attributes is called
UpgradeInit ==
    /\ VerifyIdle
    /\ up_dir \in UpgradeDirectories(MaxUpgradeUsers)
    /\ up_iam_users = DataCacheUsers(up_dir)
    /\ up_csv_users \in UpgradeRosters(MaxUpgradeUsers)
    /\ up_dry_run \in BOOLEAN
    /\ up_pc = "start"
    /\ up_plan = EmptyUpgradePlan
    /\ up_i = 1
    /\ up_operations = <<>>
    /\ up_successful = 0
    /\ up_failed = 0
    /\ up_update_calls = <<>>
    /\ up_faults = 0
    /\ up_result = NoUpgradeResult

\* 38: what generate_upgrade_plan is given as the users
plan_users_Directory == DataCacheUsers(up_dir)

plan_users == up_iam_users

\* 37-48: the plan is generated; a dry run returns it
GenerateUpgradePlan ==
    /\ up_pc = "start"
    /\ LET upgrade_plan == generate_upgrade_plan(plan_users, up_csv_users) IN
       /\ up_plan' = upgrade_plan
       /\ IF dry_run_return
             THEN /\ up_result' = UpgradeResult(TRUE, Len(upgrade_plan.users_to_upgrade),
                                                0, 0, <<>>, upgrade_plan)
                  /\ up_pc' = "done"
             ELSE /\ up_pc' = "execute"
                  /\ UNCHANGED up_result
    /\ UNCHANGED <<up_dir, up_iam_users, up_csv_users, up_dry_run, up_i, up_operations,
                   up_successful, up_failed, up_update_calls, up_faults>>
    /\ UNCHANGED verifyVars
    /\ UNCHANGED notUpgrade

\* 55: the loop over upgrade_plan.users_to_upgrade ends after the last pair
loop_over_AfterFailure == up_i > Len(up_plan.users_to_upgrade) \/ up_failed > 0

loop_over == up_i > Len(up_plan.users_to_upgrade)

\* 55-72 and 277-330: one pair of the plan is converted and updated
UpgradeUser ==
    /\ up_pc = "execute"
    /\ ~loop_over
    /\ LET pair == up_plan.users_to_upgrade[up_i]
           update_data == convert_to_new_format(pair[1], pair[2])
       IN IF update_data.operations = <<>>
          THEN /\ up_operations' = Append(up_operations,
                      UpgradeOperation(update_data.username, TRUE, "no update needed",
                                       FALSE, NoAttributes))
               /\ up_successful' = up_successful + 1
               /\ UNCHANGED <<up_dir, up_failed, up_update_calls, up_faults>>
          ELSE \E ok \in UpdateOutcomes :
               /\ up_update_calls' = Append(up_update_calls, update_data.user_id)
               /\ IF ok
                  THEN /\ up_dir' = [up_dir EXCEPT ![update_data.user_id] =
                                        apply_operations(@, update_data.operations)]
                       /\ up_operations' = Append(up_operations,
                              UpgradeOperation(update_data.username, TRUE, "updated",
                                               TRUE, update_data.new_attributes))
                       /\ up_successful' = up_successful + 1
                       /\ UNCHANGED <<up_failed, up_faults>>
                  ELSE /\ up_operations' = Append(up_operations,
                              UpgradeOperation(update_data.username, FALSE, "update failed",
                                               FALSE, NoAttributes))
                       /\ up_failed' = up_failed + 1
                       /\ up_faults' = up_faults + 1
                       /\ UNCHANGED <<up_dir, up_successful>>
    /\ up_i' = up_i + 1
    /\ UNCHANGED <<up_iam_users, up_csv_users, up_dry_run, up_pc, up_plan, up_result>>
    /\ UNCHANGED verifyVars
    /\ UNCHANGED notUpgrade

\* 87-95: the loop is over, the UpgradeResult is returned
UpgradeReturn ==
    /\ up_pc = "execute"
    /\ loop_over
    /\ up_result' = UpgradeResult(TRUE, Len(up_plan.users_to_upgrade), up_successful,
                                  up_failed, up_operations, up_plan)
    /\ up_pc' = "done"
    /\ UNCHANGED <<up_dir, up_iam_users, up_csv_users, up_dry_run, up_plan, up_i,
                   up_operations, up_successful, up_failed, up_update_calls, up_faults>>
    /\ UNCHANGED verifyVars
    /\ UNCHANGED notUpgrade

(***************************************************************************)
(* user_attribute_upgrader.py: batch_verify_upgrades on the operations the *)
(* upgrade returned (main.py 203-207).  An email of "" stands for a user   *)
(* with no entry in Emails.                                                *)
(***************************************************************************)
\* 332-386: verify_upgrade_result, given what describe_user returned
verify_upgrade_result(current_user, expected_attributes) ==
    /\ current_user.display_name = expected_attributes.display_name
    /\ current_user.first_name = expected_attributes.first_name
    /\ current_user.last_name = expected_attributes.last_name
    /\ (current_user.email # "" /\ expected_attributes.email # "")
          => current_user.email = expected_attributes.email

\* what the two lookups of one operation can do: get_user_by_username
\* returns None or raises, describe_user raises, or the user is fetched
LookupOutcomes ==
    IF vf_faults < MaxVerifyFaults
        THEN {"absent", "lookup_raised", "describe_raised", "fetched"}
        ELSE {"fetched"}

\* the edits another administrator can make to a user meanwhile
OtherEdits ==
    { <<"email", "">>, <<"email", "zz@x.com">>, <<"display_name", <<"Zz">>>>,
      <<"first_name", <<"Zz">>>>, <<"last_name", <<"Zz">>>> }

\* 405: the loop over upgrade_operations ends after the last operation
verify_over_AfterError ==
    vf_i > Len(up_result.upgrade_operations) \/ vf_stats.verification_errors # <<>>

verify_over == vf_i > Len(up_result.upgrade_operations)

\* main.py 188-203: after the preview call the operator confirms, and
\* upgrade_user_attributes is called again with the same lists and
\* dry_run = False; the directory may have been edited during the wait
ConfirmUpgrade ==
    /\ up_pc = "done"
    /\ up_dry_run
    /\ up_result.upgrade_plan.total_operations # 0
    /\ up_dry_run' = FALSE
    /\ up_pc' = "start"
    /\ \/ UNCHANGED <<up_dir, vf_edits>>
       \/ /\ vf_edits < MaxEdits
          /\ \E un \in DOMAIN up_dir : \E e \in OtherEdits :
                up_dir' = [up_dir EXCEPT ![un][e[1]] = e[2]]
          /\ vf_edits' = vf_edits + 1
    /\ UNCHANGED <<up_iam_users, up_csv_users, up_plan, up_i, up_operations,
                   up_successful, up_failed, up_update_calls, up_faults, up_result>>
    /\ UNCHANGED <<vf_i, vf_stats, vf_log, vf_faults>>
    /\ UNCHANGED notUpgrade

\* main.py 203-207: the operations of a real upgrade are handed to the verification
StartVerify ==
    /\ up_pc = "done"
    /\ ~up_dry_run
    /\ up_pc' = "verify"
    /\ UNCHANGED <<up_dir, upgradeCallVars, verifyVars>>
    /\ UNCHANGED notUpgrade

\* the directory is shared: a user is edited while the verification runs
OtherAdminEdit ==
    /\ up_pc = "verify"
    /\ vf_edits < MaxEdits
    /\ \E un \in DOMAIN up_dir : \E e \in OtherEdits :
          up_dir' = [up_dir EXCEPT ![un][e[1]] = e[2]]
    /\ vf_edits' = vf_edits + 1
    /\ UNCHANGED <<up_pc, upgradeCallVars, vf_i, vf_stats, vf_log, vf_faults>>
    /\ UNCHANGED notUpgrade

\* 405-436: one operation of the list
VerifyOperation ==
    /\ up_pc = "verify"
    /\ ~verify_over
    /\ LET operation == up_result.upgrade_operations[vf_i]
           username == operation.target
           Logged(lookup, passed) ==
               Append(vf_log, [index |-> vf_i, lookup |-> lookup, passed |-> passed,
                               current_user |-> up_dir[username]])
           Error(kind) ==
               Append(vf_stats.verification_errors, [target |-> username, kind |-> kind])
       IN IF ~operation.success \/ ~operation.has_details
          THEN /\ vf_log' = Logged("skipped", FALSE)
               /\ UNCHANGED <<vf_stats, vf_faults>>
          ELSE \E outcome \in LookupOutcomes :
               /\ vf_faults' = IF outcome = "fetched" THEN vf_faults ELSE vf_faults + 1
               /\ CASE outcome = "absent" ->
                        /\ vf_stats' = [vf_stats EXCEPT
                                            !.verification_errors = Error("not found")]
                        /\ vf_log' = Logged(outcome, FALSE)
                    [] outcome = "lookup_raised" ->
                        /\ vf_stats' = [vf_stats EXCEPT
                                            !.failed_verification = @ + 1,
                                            !.verification_errors = Error("exception")]
                        /\ vf_log' = Logged(outcome, FALSE)
                    [] outcome = "describe_raised" ->
                        /\ vf_stats' = [vf_stats EXCEPT
                                            !.total_verified = @ + 1,
                                            !.failed_verification = @ + 1,
                                            !.verification_errors = Error("failed")]
                        /\ vf_log' = Logged(outcome, FALSE)
                    [] OTHER ->
                        IF verify_upgrade_result(up_dir[username], operation.new_attributes)
                        THEN /\ vf_stats' = [vf_stats EXCEPT
                                                 !.total_verified = @ + 1,
                                                 !.passed_verification = @ + 1]
                             /\ vf_log' = Logged(outcome, TRUE)
                        ELSE /\ vf_stats' = [vf_stats EXCEPT
                                                 !.total_verified = @ + 1,
                                                 !.failed_verification = @ + 1,
                                                 !.verification_errors = Error("failed")]
                             /\ vf_log' = Logged(outcome, FALSE)
    /\ vf_i' = vf_i + 1
    /\ UNCHANGED <<up_dir, up_pc, upgradeCallVars, vf_edits>>
    /\ UNCHANGED notUpgrade

\* 438-442: verification_stats is returned
VerifyReturn ==
    /\ up_pc = "verify"
    /\ verify_over
    /\ up_pc' = "verified"
    /\ UNCHANGED <<up_dir, upgradeCallVars, verifyVars>>
    /\ UNCHANGED notUpgrade

(***************************************************************************)
(* performance_metrics.py: the collector, and the calls one sync run makes *)
(* on it (main.py 270-292, execute_sync_plan, the batch executors).        *)
(***************************************************************************)
\* the phases of a run: "总体同步", "数据缓存初始化", "用户创建", "用户更新", "用户删除"
PhaseNames == {"overall", "cache_init", "create", "update", "delete"}

\* the keys of _operations
OpTypes == {"create", "update", "delete"}

\* the order of the batches in execute_sync_plan
Stages == <<"create", "update", "delete">>

\* 25-50: __init__
NoPhase == [known |-> FALSE, start |-> 0, ended |-> FALSE, duration |-> 0]

ZeroTally == [total |-> 0, success |-> 0, failed |-> 0]

ZeroCacheStats == [hits |-> 0, misses |-> 0, total |-> 0]

\* 52-63: start_phase
start_phase(phases, phase_name, now) ==
    [phases EXCEPT ![phase_name].known = TRUE, ![phase_name].start = now]

\* 65-87: end_phase
end_phase(phases, phase_name, now) ==
    IF ~phases[phase_name].known THEN phases
    ELSE [phases EXCEPT ![phase_name].ended = TRUE,
                        ![phase_name].duration = now - phases[phase_name].start]

\* 98-103: one more call in a tally
tally(t, success) ==
    [total |-> t.total + 1,
     success |-> IF success THEN t.success + 1 ELSE t.success,
     failed |-> IF success THEN t.failed ELSE t.failed + 1]

\* 89-120: record_api_call
record_api_call(api_calls, success) == tally(api_calls, success)

\* 122-132: record_cache_hit and record_cache_miss
record_cache_hit(stats) == [stats EXCEPT !.hits = @ + 1, !.total = @ + 1]

record_cache_miss(stats) == [stats EXCEPT !.misses = @ + 1, !.total = @ + 1]

\* 166-183: record_operation that starts the tally of the kind again
record_operation_Restart(operations, op_type, success) ==
    IF op_type \notin DOMAIN operations THEN operations
    ELSE [operations EXCEPT ![op_type] = tally(ZeroTally, success)]

\* 166-183: record_operation
record_operation(operations, op_type, success) ==
    IF op_type \notin DOMAIN operations THEN operations
    ELSE [operations EXCEPT ![op_type] = tally(@, success)]

MetricsIdle ==
    /\ pm_pc = "idle"
    /\ pm_stage = 1
    /\ pm_in_phase = FALSE
    /\ pm_todo = [k \in OpTypes |-> 0]
    /\ pm_to_filter = 0
    /\ pm_clock = 0
    /\ pm_phases = [p \in PhaseNames |-> NoPhase]
    /\ pm_api_calls = ZeroTally
    /\ pm_cache_stats = ZeroCacheStats
    /\ pm_operations = [k \in OpTypes |-> ZeroTally]
    /\ pm_gateway_calls = 0
    /\ pm_show_progress = FALSE

\* main.py 274: PerformanceMetrics(), for every size of the three lists of the plan
MetricsInit ==
    /\ pm_pc = "init"
    /\ pm_stage = 1
    /\ pm_in_phase = FALSE
    /\ pm_todo \in { t \in [OpTypes -> 0..MaxBatchItems] : t["update"] = 0 }
    /\ pm_to_filter \in 0..MaxBatchItems
    /\ pm_clock = 0
    /\ pm_phases = [p \in PhaseNames |-> NoPhase]
    /\ pm_api_calls = ZeroTally
    /\ pm_cache_stats = ZeroCacheStats
    /\ pm_operations = [k \in OpTypes |-> ZeroTally]
    /\ pm_gateway_calls = 0
    /\ pm_show_progress \in BOOLEAN

\* time passes
Tick ==
    /\ pm_pc \in {"init", "cache_init", "filter", "batches"}
    /\ pm_clock < MaxClock
    /\ pm_clock' = pm_clock + 1
    /\ UNCHANGED <<pm_pc, pm_stage, pm_in_phase, pm_todo, pm_to_filter, pm_phases,
                   pm_api_calls, pm_cache_stats, pm_operations, pm_gateway_calls,
                   pm_show_progress>>
    /\ UNCHANGED notMetrics

\* aws_client.py 166-219: a gateway call completes in _retry_api_call, which
\* holds no reference to the collector
GatewayCall ==
    /\ \/ pm_pc = "cache_init"
       \/ pm_pc = "batches" /\ pm_in_phase
    /\ pm_gateway_calls < MaxGatewayCalls
    /\ pm_gateway_calls' = pm_gateway_calls + 1
    /\ UNCHANGED <<pm_pc, pm_stage, pm_in_phase, pm_todo, pm_to_filter, pm_clock, pm_phases,
                   pm_api_calls, pm_cache_stats, pm_operations,
                   pm_show_progress>>
    /\ UNCHANGED notMetrics

\* main.py 274-280: the two outer phases are started
MetricsStart ==
    /\ pm_pc = "init"
    /\ pm_phases' = start_phase(start_phase(pm_phases, "overall", pm_clock),
                                "cache_init", pm_clock)
    /\ pm_pc' = "cache_init"
    /\ UNCHANGED <<pm_stage, pm_in_phase, pm_todo, pm_to_filter, pm_clock,
                   pm_api_calls, pm_cache_stats, pm_operations, pm_gateway_calls,
                   pm_show_progress>>
    /\ UNCHANGED notMetrics

\* main.py 281-282: shared_cache.initialize returns or raises
CacheInitDone ==
    /\ pm_pc = "cache_init"
    /\ \E ok \in BOOLEAN :
          IF ok THEN /\ pm_phases' = end_phase(pm_phases, "cache_init", pm_clock)
                     /\ pm_pc' = "filter"
                ELSE /\ pm_pc' = "aborted"
                     /\ UNCHANGED pm_phases
    /\ UNCHANGED <<pm_stage, pm_in_phase, pm_todo, pm_to_filter, pm_clock,
                   pm_api_calls, pm_cache_stats, pm_operations, pm_gateway_calls,
                   pm_show_progress>>
    /\ UNCHANGED notMetrics

\* user_manager.py 1286-1302: one user of users_to_update is looked up in
\* the shared cache
FilterUser ==
    /\ pm_pc = "filter"
    /\ pm_to_filter > 0
    /\ \E outcome \in {"hit_update", "hit_skip", "miss"} :
          /\ pm_cache_stats' = IF outcome = "miss" THEN record_cache_miss(pm_cache_stats)
                                                   ELSE record_cache_hit(pm_cache_stats)
          /\ pm_todo' = IF outcome = "hit_skip" THEN pm_todo
                        ELSE [pm_todo EXCEPT !["update"] = @ + 1]
    /\ pm_to_filter' = pm_to_filter - 1
    /\ UNCHANGED <<pm_pc, pm_stage, pm_in_phase, pm_clock, pm_phases,
                   pm_api_calls, pm_operations, pm_gateway_calls,
                   pm_show_progress>>
    /\ UNCHANGED notMetrics

\* user_manager.py 1309: the filtered list replaces users_to_update
FilterDone ==
    /\ pm_pc = "filter"
    /\ pm_to_filter = 0
    /\ pm_pc' = "batches"
    /\ UNCHANGED <<pm_stage, pm_in_phase, pm_todo, pm_to_filter, pm_clock, pm_phases,
                   pm_api_calls, pm_cache_stats, pm_operations, pm_gateway_calls,
                   pm_show_progress>>
    /\ UNCHANGED notMetrics

\* user_manager.py 1312-1315, 1331-1334, 1350-1353: a batch with items
\* starts its phase, an empty one is passed over
BatchStart ==
    /\ pm_pc = "batches"
    /\ pm_stage <= Len(Stages)
    /\ ~pm_in_phase
    /\ IF pm_todo[Stages[pm_stage]] > 0
          THEN /\ pm_phases' = start_phase(pm_phases, Stages[pm_stage], pm_clock)
               /\ pm_in_phase' = TRUE
               /\ UNCHANGED pm_stage
          ELSE /\ pm_stage' = pm_stage + 1
               /\ UNCHANGED <<pm_phases, pm_in_phase>>
    /\ UNCHANGED <<pm_pc, pm_todo, pm_to_filter, pm_clock,
                   pm_api_calls, pm_cache_stats, pm_operations, pm_gateway_calls,
                   pm_show_progress>>
    /\ UNCHANGED notMetrics

\* the op_type a worker records for an item of the batch: 529-532 and
\* 551, 564 in batch_process_users_concurrent, 1001-1033 in
\* batch_delete_users_concurrent
RecordedOpTypes(stage) ==
    IF Stages[stage] = "delete" THEN {"delete"} ELSE {"create", "update"}

\* user_manager.py 514-566, 985-1035: a worker is through with one item; it
\* records the operation, or records nothing when it re-raises a rate limit
ItemHandled ==
    /\ pm_pc = "batches"
    /\ pm_in_phase
    /\ ~pm_show_progress
    /\ pm_todo[Stages[pm_stage]] > 0
    /\ \/ \E op_type \in RecordedOpTypes(pm_stage) : \E success \in BOOLEAN :
             pm_operations' = record_operation(pm_operations, op_type, success)
       \/ UNCHANGED pm_operations
    /\ pm_todo' = [pm_todo EXCEPT ![Stages[pm_stage]] = @ - 1]
    /\ UNCHANGED <<pm_pc, pm_stage, pm_in_phase, pm_to_filter, pm_clock, pm_phases,
                   pm_api_calls, pm_cache_stats, pm_gateway_calls,
                   pm_show_progress>>
    /\ UNCHANGED notMetrics

\* user_manager.py 508, 983, 1379-1381: with show_progress the batch raises
\* where it builds its ProgressTracker, and execute_sync_plan raises again
BatchRaises ==
    /\ pm_pc = "batches"
    /\ pm_in_phase
    /\ pm_show_progress
    /\ pm_pc' = "aborted"
    /\ UNCHANGED <<pm_stage, pm_in_phase, pm_todo, pm_to_filter, pm_clock, pm_phases,
                   pm_api_calls, pm_cache_stats, pm_operations, pm_gateway_calls,
                   pm_show_progress>>
    /\ UNCHANGED notMetrics

\* user_manager.py 1327-1328, 1346-1347, 1365-1366: the batch has returned
BatchEnd ==
    /\ pm_pc = "batches"
    /\ pm_in_phase
    /\ ~pm_show_progress
    /\ pm_todo[Stages[pm_stage]] = 0
    /\ pm_phases' = end_phase(pm_phases, Stages[pm_stage], pm_clock)
    /\ pm_in_phase' = FALSE
    /\ pm_stage' = pm_stage + 1
    /\ UNCHANGED <<pm_pc, pm_todo, pm_to_filter, pm_clock,
                   pm_api_calls, pm_cache_stats, pm_operations, pm_gateway_calls,
                   pm_show_progress>>
    /\ UNCHANGED notMetrics

\* main.py 292: execute_sync_plan has returned
MetricsFinish ==
    /\ pm_pc = "batches"
    /\ pm_stage > Len(Stages)
    /\ pm_phases' = end_phase(pm_phases, "overall", pm_clock)
    /\ pm_pc' = "finished"
    /\ UNCHANGED <<pm_stage, pm_in_phase, pm_todo, pm_to_filter, pm_clock,
                   pm_api_calls, pm_cache_stats, pm_operations, pm_gateway_calls,
                   pm_show_progress>>
    /\ UNCHANGED notMetrics

(***************************************************************************)
(* main.py 95-105: the worker count of a run, and the pools made with it.  *)
(***************************************************************************)
\* config.py 83-91: the defaults of PerformanceConfig
PerformanceConfig == [max_workers |-> 5, max_workers_min |-> 1, max_workers_max |-> 10]

\* config.py 184-191: the performance section of a configuration file
\* replaces the fields it names; no value is checked
LoadedPerformanceConfigs ==
    [max_workers : {0, PerformanceConfig.max_workers, 11},
     max_workers_min : {PerformanceConfig.max_workers_min},
     max_workers_max : {PerformanceConfig.max_workers_max, 11}]

\* main.py 571: --max-workers takes any int
RequestedWorkers == 0..MaxRequest

\* main.py 96-105
validated_max_workers(request, performance) ==
    IF request < performance.max_workers_min \/ request > performance.max_workers_max
        THEN performance.max_workers
        ELSE request

WorkersIdle ==
    /\ wk_pc = "idle"
    /\ wk_request = 0
    /\ wk_performance = PerformanceConfig
    /\ wk_max_workers = 0
    /\ wk_pools = <<>>

WorkersInit ==
    /\ wk_pc = "validate"
    /\ wk_request \in RequestedWorkers
    /\ wk_performance \in LoadedPerformanceConfigs
    /\ wk_max_workers = wk_request
    /\ wk_pools = <<>>

\* main.py 95-105
ValidateMaxWorkers ==
    /\ wk_pc = "validate"
    /\ wk_max_workers' = validated_max_workers(wk_request, wk_performance)
    /\ wk_pc' = "batches"
    /\ UNCHANGED <<wk_request, wk_performance, wk_pools>>
    /\ UNCHANGED notWorkers

\* user_manager.py 568, 1037: ThreadPoolExecutor(max_workers=max_workers),
\* which raises ValueError for a size below 1
StartPool ==
    /\ wk_pc = "batches"
    /\ Len(wk_pools) < MaxBatches
    /\ IF wk_max_workers <= 0
          THEN wk_pc' = "raised" /\ UNCHANGED wk_pools
          ELSE wk_pools' = Append(wk_pools, wk_max_workers) /\ UNCHANGED wk_pc
    /\ UNCHANGED <<wk_request, wk_performance, wk_max_workers>>
    /\ UNCHANGED notWorkers

\* user_manager.py 1368-1377: execute_sync_plan returns
WorkersDone ==
    /\ wk_pc = "batches"
    /\ wk_pc' = "done"
    /\ UNCHANGED <<wk_request, wk_performance, wk_max_workers, wk_pools>>
    /\ UNCHANGED notWorkers

(***************************************************************************)
(* group_manager.py: one call of update_user_subscriptions on a directory. *)
(***************************************************************************)
SubsIdle ==
    /\ sb_pc = "idle"
    /\ sb_user = UserSubscription(<<"E1">>, NameOf(<<"E1">>), EmailOf(<<"E1">>), "NONE")
    /\ sb_before = <<>>
    /\ sb_dir = <<>>
    /\ sb_success = FALSE

\* the directory holds at most one user, with any set of groups
SubsInit ==
    /\ sb_pc = "start"
    /\ sb_user \in DesiredRecords
    /\ \E d \in Directories(1) : \E g \in SUBSET AllGroups :
          sb_dir = [un \in DOMAIN d |-> [d[un] EXCEPT !.groups = g]]
    /\ sb_before = sb_dir
    /\ sb_success = FALSE

\* 278-387: the call, with any set of groups whose add or remove call fails
UpdateUserSubscriptions ==
    /\ sb_pc = "start"
    /\ \E failing \in SUBSET all_managed_groups :
          LET r == update_user_subscriptions(sb_dir, sb_user, failing)
          IN /\ sb_dir' = r.dir
             /\ sb_success' = r.success
    /\ sb_pc' = "done"
    /\ UNCHANGED <<sb_user, sb_before>>
    /\ UNCHANGED notSubs

(***************************************************************************)
(* user_manager.py: execute_sync_plan, the order of its three batches.     *)
(* Partition 1 is users_to_create, 2 users_to_update, 3 users_to_delete.   *)
(***************************************************************************)
Partitions == 1..3
BatchItemIds == 1..MaxPartition
Unfinished == {"queued", "running"}

\* ThreadPoolExecutor.__exit__ is shutdown(wait=True): the with block is left
\* when no task of the pool is queued or running any more
shutdown_NoWait(futures) == TRUE

shutdown(futures) == \A i \in DOMAIN futures : futures[i] \notin Unfinished

BatchesIdle ==
    /\ bt_plan = [s \in Partitions |-> 0]
    /\ bt_show_progress = FALSE
    /\ bt_max_workers = 1
    /\ bt_stage = 4
    /\ bt_at = "idle"
    /\ bt_i = 1
    /\ bt_submitted = 0
    /\ bt_results = 0
    /\ bt_rate_limit = FALSE
    /\ bt_future = [s \in Partitions |-> [i \in BatchItemIds |-> "none"]]
    /\ bt_begun = {}
    /\ bt_finished = {}

BatchesInit ==
    /\ bt_plan \in [Partitions -> 0..MaxPartition]
    /\ bt_show_progress \in BOOLEAN
    /\ bt_max_workers \in 1..MaxPoolSize
    /\ bt_stage = 1
    /\ bt_at = "enter"
    /\ bt_i = 1
    /\ bt_submitted = 0
    /\ bt_results = 0
    /\ bt_rate_limit = FALSE
    /\ bt_future = [s \in Partitions |-> [i \in BatchItemIds |-> "none"]]
    /\ bt_begun = {}
    /\ bt_finished = {}

\* 1311-1366: the test of the partition, and the start of its batch up to
\* the pool (496-512): an empty partition is skipped, the progress tracker
\* raises when show_progress is set
EnterBatch ==
    /\ bt_at = "enter"
    /\ IF bt_stage = 4
          THEN /\ bt_at' = "done"
               /\ UNCHANGED bt_stage
          ELSE IF bt_plan[bt_stage] = 0
          THEN /\ bt_stage' = bt_stage + 1
               /\ UNCHANGED bt_at
          ELSE IF bt_show_progress
          THEN /\ bt_at' = "raised"
               /\ UNCHANGED bt_stage
          ELSE /\ bt_at' = "submit"
               /\ UNCHANGED bt_stage
    /\ bt_i' = 1
    /\ bt_submitted' = 0
    /\ bt_results' = 0
    /\ bt_rate_limit' = FALSE
    /\ UNCHANGED <<bt_plan, bt_show_progress, bt_max_workers, bt_future, bt_begun, bt_finished>>
    /\ UNCHANGED notBatches

\* 570-577: one turn of the submit loop
SubmitTask ==
    /\ bt_at = "submit"
    /\ IF bt_i > bt_plan[bt_stage] \/ bt_rate_limit
          THEN /\ bt_at' = "collect"
               /\ bt_i' = 1
               /\ UNCHANGED <<bt_submitted, bt_future>>
          ELSE /\ bt_future' = [bt_future EXCEPT ![bt_stage][bt_i] = "queued"]
               /\ bt_submitted' = bt_submitted + 1
               /\ bt_i' = bt_i + 1
               /\ UNCHANGED bt_at
    /\ UNCHANGED <<bt_plan, bt_show_progress, bt_max_workers, bt_stage, bt_results,
                   bt_rate_limit, bt_begun, bt_finished>>
    /\ UNCHANGED notBatches

\* a worker of the pool of partition s takes a queued task
TaskStart(s, i) ==
    /\ bt_future[s][i] = "queued"
    /\ Cardinality({j \in BatchItemIds : bt_future[s][j] = "running"}) < bt_max_workers
    /\ bt_future' = [bt_future EXCEPT ![s][i] = "running"]
    /\ bt_begun' = bt_begun \cup {<<s, i>>}
    /\ UNCHANGED <<bt_plan, bt_show_progress, bt_max_workers, bt_stage, bt_at, bt_i,
                   bt_submitted, bt_results, bt_rate_limit, bt_finished>>
    /\ UNCHANGED notBatches

\* 514-566: process_single_user ends in the worker, with a result or with
\* the rate-limit error, which sets the event of its batch
TaskEnd(s, i) ==
    /\ bt_future[s][i] = "running"
    /\ \E raises \in BOOLEAN :
          /\ bt_future' = [bt_future EXCEPT ![s][i] = IF raises THEN "raised" ELSE "result"]
          /\ bt_rate_limit' = IF raises /\ s = bt_stage THEN TRUE ELSE bt_rate_limit
    /\ bt_finished' = bt_finished \cup {<<s, i>>}
    /\ UNCHANGED <<bt_plan, bt_show_progress, bt_max_workers, bt_stage, bt_at, bt_i,
                   bt_submitted, bt_results, bt_begun>>
    /\ UNCHANGED notBatches

\* 580-618: one turn of the collect loop; future.result may time out while
\* the task is queued or running
CollectFuture ==
    /\ bt_at = "collect"
    /\ IF bt_i > bt_submitted
          THEN /\ bt_at' = "shutdown"
               /\ UNCHANGED <<bt_i, bt_results>>
          ELSE \/ /\ bt_future[bt_stage][bt_i] = "result" \/ bt_future[bt_stage][bt_i] \in Unfinished
                  /\ bt_results' = bt_results + 1
                  /\ bt_i' = bt_i + 1
                  /\ UNCHANGED bt_at
               \/ /\ bt_future[bt_stage][bt_i] = "raised"
                  /\ IF bt_rate_limit
                        THEN /\ bt_at' = "shutdown"
                             /\ UNCHANGED bt_i
                        ELSE /\ bt_i' = bt_i + 1
                             /\ UNCHANGED bt_at
                  /\ UNCHANGED bt_results
    /\ UNCHANGED <<bt_plan, bt_show_progress, bt_max_workers, bt_stage, bt_submitted,
                   bt_rate_limit, bt_future, bt_begun, bt_finished>>
    /\ UNCHANGED notBatches

\* 568: the end of the with block
PoolExit ==
    /\ bt_at = "shutdown"
    /\ shutdown(bt_future[bt_stage])
    /\ bt_at' = "fallback"
    /\ UNCHANGED <<bt_plan, bt_show_progress, bt_max_workers, bt_stage, bt_i, bt_submitted,
                   bt_results, bt_rate_limit, bt_future, bt_begun, bt_finished>>
    /\ UNCHANGED notBatches

\* 620-650: the serial fallback, one item of users[len(operation_results):]
\* per step, in the calling thread; 652-668: the return of the batch
SerialOrReturn ==
    /\ bt_at = "fallback"
    /\ IF bt_rate_limit /\ bt_results < bt_plan[bt_stage]
          THEN /\ bt_begun' = bt_begun \cup {<<bt_stage, bt_results + 1>>}
               /\ bt_finished' = bt_finished \cup {<<bt_stage, bt_results + 1>>}
               /\ bt_results' = bt_results + 1
               /\ UNCHANGED <<bt_stage, bt_at>>
          ELSE /\ bt_stage' = bt_stage + 1
               /\ bt_at' = "enter"
               /\ UNCHANGED <<bt_results, bt_begun, bt_finished>>
    /\ UNCHANGED <<bt_plan, bt_show_progress, bt_max_workers, bt_i, bt_submitted,
                   bt_rate_limit, bt_future>>
    /\ UNCHANGED notBatches

(***************************************************************************)
(* performance_metrics.py: threads recording into one collector.  Every     *)
(* `x += 1` is a read followed by a write.                                 *)
(***************************************************************************)
Recorders == 1..MaxRecorders
Tables == {"_api_calls", "_cache_stats", "create", "update", "delete"}
ZeroTables ==
    [t \in Tables |-> IF t = "_cache_stats" THEN [hits |-> 0, misses |-> 0, total |-> 0]
                                            ELSE [total |-> 0, success |-> 0, failed |-> 0]]
\* the op_type arguments: the three kinds of _operations and one unknown kind
OpTypeArgs == {"create", "update", "delete", "modify"}
RecordCalls ==
    [method : {"record_api_call"}, op_type : {"none"}, success : BOOLEAN]
        \cup [method : {"record_cache_hit", "record_cache_miss"}, op_type : {"none"},
              success : {TRUE}]
        \cup [method : {"record_operation"}, op_type : OpTypeArgs, success : BOOLEAN]
NoCall == [method |-> "none", op_type |-> "none", success |-> TRUE]

\* the counters a call increments, in the order of its statements, as
\* <<table, key>> pairs
Increments(c) ==
    CASE c.method = "record_api_call" ->
             <<(<<"_api_calls", "total">>),
               (<<"_api_calls", IF c.success THEN "success" ELSE "failed">>)>>
      [] c.method = "record_cache_hit" ->
             <<(<<"_cache_stats", "hits">>), (<<"_cache_stats", "total">>)>>
      [] c.method = "record_cache_miss" ->
             <<(<<"_cache_stats", "misses">>), (<<"_cache_stats", "total">>)>>
      [] c.method = "record_operation" ->
             IF c.op_type \in {"create", "update", "delete"}
                 THEN <<(<<c.op_type, "total">>),
                        (<<c.op_type, IF c.success THEN "success" ELSE "failed">>)>>
                 ELSE <<>>
      [] OTHER -> <<>>

\* the table a call counts in, "none" for an unknown kind
TableOf(c) == IF Increments(c) = <<>> THEN "none" ELSE Increments(c)[1][1]
\* whether the call counts as a success (a hit) or as a failure (a miss)
CountsAsSuccess(c) == IF c.method = "record_cache_miss" THEN FALSE ELSE c.success

\* `with self._lock` without the lock
can_acquire_Always(lock) == TRUE

\* `with self._lock`: the lock is taken when it is free
can_acquire(lock) == lock = 0

CollectorIdle ==
    /\ mc_lock = 0
    /\ mc_tables = ZeroTables
    /\ mc_pc = [w \in Recorders |-> "off"]
    /\ mc_call = [w \in Recorders |-> NoCall]
    /\ mc_step = [w \in Recorders |-> 1]
    /\ mc_tmp = [w \in Recorders |-> 0]
    /\ mc_calls = 0
    /\ mc_recorded = [t \in Tables |-> [success |-> 0, failed |-> 0]]

\* 25-50
CollectorInit ==
    /\ mc_lock = 0
    /\ mc_tables = ZeroTables
    /\ mc_pc = [w \in Recorders |-> "idle"]
    /\ mc_call = [w \in Recorders |-> NoCall]
    /\ mc_step = [w \in Recorders |-> 1]
    /\ mc_tmp = [w \in Recorders |-> 0]
    /\ mc_calls = 0
    /\ mc_recorded = [t \in Tables |-> [success |-> 0, failed |-> 0]]

\* a thread calls one of the record methods
RecordCall(w) ==
    /\ mc_pc[w] = "idle"
    /\ mc_calls < MaxRecordCalls
    /\ \E c \in RecordCalls : mc_call' = [mc_call EXCEPT ![w] = c]
    /\ mc_pc' = [mc_pc EXCEPT ![w] = "acquire"]
    /\ mc_calls' = mc_calls + 1
    /\ UNCHANGED <<mc_lock, mc_tables, mc_step, mc_tmp, mc_recorded>>
    /\ UNCHANGED notCollector

\* 98, 124, 130, 174: with self._lock
AcquireLock(w) ==
    /\ mc_pc[w] = "acquire"
    /\ can_acquire(mc_lock)
    /\ mc_lock' = w
    /\ mc_pc' = [mc_pc EXCEPT ![w] = "read"]
    /\ mc_step' = [mc_step EXCEPT ![w] = 1]
    /\ UNCHANGED <<mc_tables, mc_call, mc_tmp, mc_calls, mc_recorded>>
    /\ UNCHANGED notCollector

\* the read of a `+= 1`, or the end of the body: the return of
\* record_operation for an unknown kind (175-177), else the last statement
ReadCounter(w) ==
    /\ mc_pc[w] = "read"
    /\ IF mc_step[w] > Len(Increments(mc_call[w]))
          THEN /\ mc_pc' = [mc_pc EXCEPT ![w] = "release"]
               /\ UNCHANGED mc_tmp
          ELSE LET at == Increments(mc_call[w])[mc_step[w]]
               IN /\ mc_tmp' = [mc_tmp EXCEPT ![w] = mc_tables[at[1]][at[2]]]
                  /\ mc_pc' = [mc_pc EXCEPT ![w] = "write"]
    /\ UNCHANGED <<mc_lock, mc_tables, mc_call, mc_step, mc_calls, mc_recorded>>
    /\ UNCHANGED notCollector

\* the write of a `+= 1`
WriteCounter(w) ==
    /\ mc_pc[w] = "write"
    /\ LET at == Increments(mc_call[w])[mc_step[w]]
       IN mc_tables' = [mc_tables EXCEPT ![at[1]][at[2]] = mc_tmp[w] + 1]
    /\ mc_step' = [mc_step EXCEPT ![w] = @ + 1]
    /\ mc_pc' = [mc_pc EXCEPT ![w] = "read"]
    /\ UNCHANGED <<mc_lock, mc_call, mc_tmp, mc_calls, mc_recorded>>
    /\ UNCHANGED notCollector

\* the end of the with block, and the return of the call
ReleaseLock(w) ==
    /\ mc_pc[w] = "release"
    /\ mc_lock' = 0
    /\ mc_pc' = [mc_pc EXCEPT ![w] = "idle"]
    /\ mc_recorded' =
          IF TableOf(mc_call[w]) = "none" THEN mc_recorded
          ELSE IF CountsAsSuccess(mc_call[w])
          THEN [mc_recorded EXCEPT ![TableOf(mc_call[w])].success = @ + 1]
          ELSE [mc_recorded EXCEPT ![TableOf(mc_call[w])].failed = @ + 1]
    /\ UNCHANGED <<mc_tables, mc_call, mc_step, mc_tmp, mc_calls>>
    /\ UNCHANGED notCollector

RestIdle == SubsIdle /\ BatchesIdle /\ CollectorIdle

RunIdle ==
    /\ phase = "idle"
    /\ directory = <<>>
    /\ desired = <<>>
    /\ use_new_format = TRUE
    /\ sync_plan = EmptyPlan
    /\ shared_cache = <<>>
    /\ snapshots_built = 0
    /\ decision_reads = {}
    /\ faults = 0
    /\ run_ok = TRUE
    /\ replan = EmptyPlan
    /\ snapshot_failures = {}
    /\ blind_calls = 0

RunInit(maxDir) ==
    /\ phase = "start"
    /\ directory \in Directories(maxDir)
    /\ desired \in DesiredLists(MaxDesired)
    /\ use_new_format \in BOOLEAN
    /\ sync_plan = EmptyPlan
    /\ shared_cache = <<>>
    /\ snapshots_built = 0
    /\ decision_reads = {}
    /\ faults = 0
    /\ run_ok = TRUE
    /\ replan = EmptyPlan
    /\ snapshot_failures = {}
    /\ blind_calls = 0
    /\ ExecIdle
    /\ RetryIdle
    /\ CacheIdle
    /\ PredIdle
    /\ UpgradeIdle
    /\ MetricsIdle
    /\ WorkersIdle /\ RestIdle

\* whether building a DataCache succeeds: list_users or list_groups may raise
SnapshotOutcomes == IF faults < MaxFaults THEN BOOLEAN ELSE {TRUE}

\* main.py 251-262: sync_users builds its own DataCache (get_existing_users)
\* and partitions the roster against it
SyncUsers ==
    /\ phase = "start"
    /\ \E built \in SnapshotOutcomes :
          IF built
          THEN /\ snapshots_built' = snapshots_built + 1
               /\ sync_plan' = sync_users(desired, DataCacheUsers(directory), use_new_format)
               /\ decision_reads' = decision_reads \cup {<<"partition", snapshots_built'>>}
               /\ phase' = IF total_operations(sync_plan') = 0 THEN "done" ELSE "confirm"
               /\ UNCHANGED <<faults, snapshot_failures>>
          ELSE \* 1199-1201: the exception of get_existing_users goes up to main
               /\ phase' = "aborted"
               /\ faults' = faults + 1
               /\ snapshot_failures' = snapshot_failures \cup {"sync_users"}
               /\ UNCHANGED <<snapshots_built, sync_plan, decision_reads>>
    /\ UNCHANGED notRun
    /\ UNCHANGED <<use_new_format, desired, directory, shared_cache, run_ok, replan, blind_calls>>

\* main.py 264-267: the operator types SYNC, or anything else
Confirm ==
    /\ phase = "confirm"
    /\ \E answer \in {"SYNC", "no"} :
          phase' = IF answer = "SYNC" THEN "cache" ELSE "cancelled"
    /\ UNCHANGED <<notRun, snapshot_failures, blind_calls>>
    /\ UNCHANGED <<use_new_format, desired, directory, sync_plan, shared_cache,
                   snapshots_built, decision_reads, faults, run_ok, replan>>

\* main.py 277-282: the shared DataCache is initialized
BuildSharedCache ==
    /\ phase = "cache"
    /\ \E built \in SnapshotOutcomes :
          IF built
          THEN /\ shared_cache' = DataCacheUsers(directory)
               /\ snapshots_built' = snapshots_built + 1
               /\ phase' = "filter"
               /\ UNCHANGED <<faults, snapshot_failures>>
          ELSE \* data_cache.py 130-132: initialize raises, main gives the run up
               /\ phase' = "aborted"
               /\ faults' = faults + 1
               /\ snapshot_failures' = snapshot_failures \cup {"shared_cache"}
               /\ UNCHANGED <<shared_cache, snapshots_built>>
    /\ UNCHANGED notRun
    /\ UNCHANGED <<use_new_format, desired, directory, sync_plan, decision_reads,
                   run_ok, replan, blind_calls>>

\* the number main.py's shared cache got when it was built
SharedCacheNumber == 2

\* execute_sync_plan 1279-1309: users_to_update is filtered against the shared cache
users_need_update(users, cache, newfmt) ==
    LET Keep(u) ==
          LET un == get_username(u.employee_id) IN
          IF \E i \in DOMAIN cache : cache[i].username = un
              THEN needs_update(u, CHOOSE x \in Range(cache) : x.username = un, newfmt)
              ELSE TRUE
    IN SelectSeq(users, Keep)

FilterUpdates ==
    /\ phase = "filter"
    /\ sync_plan' = [sync_plan EXCEPT !.users_to_update =
                        users_need_update(@, shared_cache, use_new_format)]
    /\ decision_reads' = IF sync_plan.users_to_update = <<>> THEN decision_reads
                         ELSE decision_reads \cup {<<"refilter", SharedCacheNumber>>}
    /\ phase' = "create"
    /\ UNCHANGED <<notRun, snapshot_failures, blind_calls>>
    /\ UNCHANGED <<use_new_format, desired, directory, shared_cache, snapshots_built,
                   faults, run_ok, replan>>

\* a batch of batch_process_users_concurrent: its own get_existing_users
\* snapshot, then every item processed against it
ProcessBatch(users, next) ==
    IF users = <<>>
    THEN /\ phase' = next
         /\ UNCHANGED <<directory, snapshots_built, decision_reads, faults, run_ok,
                        snapshot_failures, blind_calls>>
    ELSE
      \E built \in SnapshotOutcomes :
        IF ~built
        THEN \* 503-505: the failure is logged, existing_usernames = set(), and
             \* every item goes to create_user
             LET r == batch_process_users(directory, users, 1, {}, use_new_format, {})
             IN /\ directory' = r.dir
                /\ run_ok' = (run_ok /\ r.success)
                /\ faults' = faults + 1
                /\ snapshot_failures' = snapshot_failures \cup {phase}
                /\ blind_calls' = blind_calls
                       + Cardinality(IssuingProcess(directory, users, {}, use_new_format))
                /\ phase' = next
                /\ UNCHANGED <<snapshots_built, decision_reads>>
        ELSE
         /\ UNCHANGED <<snapshot_failures, blind_calls>>
         /\ LET existing_usernames == DOMAIN directory IN
            \E failing \in FaultSets(IssuingProcess(directory, users, existing_usernames,
                                                    use_new_format)) :
               LET r == batch_process_users(directory, users, 1, existing_usernames,
                                            use_new_format, failing)
               IN /\ directory' = r.dir
                  /\ run_ok' = (run_ok /\ r.success)
                  /\ faults' = faults + Cardinality(failing)
                  /\ snapshots_built' = snapshots_built + 1
                  /\ decision_reads' = decision_reads
                                           \cup {<<"create_or_update", snapshots_built'>>}
                  /\ phase' = next

\* execute_sync_plan 1311-1328
CreateBatch ==
    /\ phase = "create"
    /\ ProcessBatch(sync_plan.users_to_create, "update")
    /\ UNCHANGED notRun
    /\ UNCHANGED <<use_new_format, desired, sync_plan, shared_cache, replan>>

\* execute_sync_plan 1330-1347
UpdateBatch ==
    /\ phase = "update"
    /\ ProcessBatch(sync_plan.users_to_update, "delete")
    /\ UNCHANGED notRun
    /\ UNCHANGED <<use_new_format, desired, sync_plan, shared_cache, replan>>

\* execute_sync_plan 1349-1366
DeleteBatch ==
    /\ phase = "delete"
    /\ LET users == sync_plan.users_to_delete IN
       \E failing \in FaultSets({ i \in DOMAIN users :
                                    get_username(users[i].employee_id) \in DOMAIN directory }) :
          LET r == batch_delete_users(directory, users, 1, failing)
          IN /\ directory' = r.dir
             /\ run_ok' = (run_ok /\ r.success)
             /\ faults' = faults + Cardinality(failing)
    /\ phase' = "subscriptions"
    /\ UNCHANGED <<notRun, snapshot_failures, blind_calls>>
    /\ UNCHANGED <<use_new_format, desired, sync_plan, shared_cache, snapshots_built,
                   decision_reads, replan>>

\* main.py 294-306: the group subscriptions of the created and updated
\* users, then shared_cache.clear()
GroupSubscriptions ==
    /\ phase = "subscriptions"
    /\ LET users == sync_plan.users_to_create \o sync_plan.users_to_update IN
       \E failing \in FaultSets(IssuingSubscriptions(directory, users, shared_cache)) :
          LET r == batch_update_subscriptions(directory, users, 1, shared_cache, failing)
          IN /\ directory' = r.dir
             /\ run_ok' = (run_ok /\ r.success)
             /\ faults' = faults + Cardinality(failing)
    /\ shared_cache' = <<>>
    /\ phase' = "done"
    /\ UNCHANGED <<notRun, snapshot_failures, blind_calls>>
    /\ UNCHANGED <<use_new_format, desired, sync_plan, snapshots_built, decision_reads, replan>>

\* the next run plans against a snapshot rebuilt from the directory as this
\* run left it
Replan ==
    /\ phase = "done"
    /\ replan' = sync_users(desired, DataCacheUsers(directory), use_new_format)
    /\ phase' = "replanned"
    /\ UNCHANGED <<notRun, snapshot_failures, blind_calls>>
    /\ UNCHANGED <<use_new_format, desired, directory, sync_plan, shared_cache,
                   snapshots_built, decision_reads, faults, run_ok>>

Init == RunInit(MaxRunDirUsers)

Next ==
    \/ SyncUsers
    \/ Confirm
    \/ BuildSharedCache
    \/ FilterUpdates
    \/ CreateBatch
    \/ UpdateBatch
    \/ DeleteBatch
    \/ GroupSubscriptions
    \/ Replan

Spec == Init /\ [][Next]_vars

(***************************************************************************)
(* The planner alone, over every roster and snapshot of the bounds.        *)
(***************************************************************************)
PlannerInit == RunInit(MaxDirUsers)

PlannerNext == SyncUsers

SpecPlanner == PlannerInit /\ [][PlannerNext]_vars

(***************************************************************************)
(* One call of the concurrent batch executor.                              *)
(***************************************************************************)
ExecSpecInit ==
    RunIdle /\ ExecInit /\ RetryIdle /\ CacheIdle /\ PredIdle /\ UpgradeIdle
        /\ MetricsIdle /\ WorkersIdle /\ RestIdle

MainThread ==
    \/ SubmitCheck
    \/ Submit
    \/ CollectEnd
    \/ CollectResult
    \/ CollectTimeout
    \/ CollectException
    \/ Join
    \/ SerialStart
    \/ SerialFinish
    \/ SerialEnd

Worker(i) ==
    \/ WorkerStart(i)
    \/ WorkerFinish(i)
    \/ WorkerRaise(i)

ExecNext ==
    \/ SubmitCheck
    \/ Submit
    \/ \E i \in Items : WorkerStart(i)
    \/ \E i \in Items : WorkerFinish(i)
    \/ \E i \in Items : WorkerRaise(i)
    \/ CollectEnd
    \/ CollectResult
    \/ CollectTimeout
    \/ CollectException
    \/ Join
    \/ SerialStart
    \/ SerialFinish
    \/ SerialEnd

SpecExec == ExecSpecInit /\ [][ExecNext]_vars

\* the whole call of batch_process_users_concurrent, from its entry
ProgressSpecInit ==
    RunIdle /\ ProgressInit /\ RetryIdle /\ CacheIdle /\ PredIdle /\ UpgradeIdle
        /\ MetricsIdle /\ WorkersIdle /\ RestIdle

ProgressNext == CreateTracker \/ ExecNext

SpecProgress == ProgressSpecInit /\ [][ProgressNext]_vars

\* the calling thread keeps running, and every call a worker makes ends
SpecExecFair ==
    /\ ExecSpecInit
    /\ [][ExecNext]_vars
    /\ WF_vars(MainThread)
    /\ \A i \in Items : WF_vars(Worker(i))

(***************************************************************************)
(* One call through the retry loop.                                        *)
(***************************************************************************)
RetrySpecInit ==
    RunIdle /\ ExecIdle /\ RetryInit /\ CacheIdle /\ PredIdle /\ UpgradeIdle
        /\ MetricsIdle /\ WorkersIdle /\ RestIdle

RetryNext ==
    \/ RetryCall
    \/ RetrySleep
    \/ RetryLoopEnd

SpecRetry == RetrySpecInit /\ [][RetryNext]_vars

(***************************************************************************)
(* One DataCache object under its callers.                                 *)
(***************************************************************************)
CacheSpecInit ==
    RunIdle /\ ExecIdle /\ RetryIdle /\ CacheInit /\ PredIdle /\ UpgradeIdle
        /\ MetricsIdle /\ WorkersIdle /\ RestIdle

CacheNext ==
    \/ \E t \in Threads : InitializeEnter(t)
    \/ \E t \in Threads : ListUsers(t)
    \/ \E t \in Threads : ListGroups(t)
    \/ \E t \in Threads : ListGroupMemberships(t)
    \/ \E t \in Threads : BuildUsers(t)
    \/ \E t \in Threads : ReadAccessors(t)
    \/ \E t \in Threads : Clear(t)

SpecCache == CacheSpecInit /\ [][CacheNext]_vars

(***************************************************************************)
(* One call of _needs_update.                                              *)
(***************************************************************************)
PredSpecInit ==
    RunIdle /\ ExecIdle /\ RetryIdle /\ CacheIdle /\ PredInit /\ UpgradeIdle
        /\ MetricsIdle /\ WorkersIdle /\ RestIdle

PredNext == NeedsUpdateCall

SpecNeedsUpdate == PredSpecInit /\ [][PredNext]_vars

(***************************************************************************)
(* One call of upgrade_user_attributes.                                    *)
(***************************************************************************)
UpgradeSpecInit ==
    RunIdle /\ ExecIdle /\ RetryIdle /\ CacheIdle /\ PredIdle /\ UpgradeInit
        /\ MetricsIdle /\ WorkersIdle /\ RestIdle

UpgradeNext ==
    \/ GenerateUpgradePlan
    \/ UpgradeUser
    \/ UpgradeReturn
    \/ ConfirmUpgrade
    \/ StartVerify
    \/ OtherAdminEdit
    \/ VerifyOperation
    \/ VerifyReturn

SpecUpgrade == UpgradeSpecInit /\ [][UpgradeNext]_vars

(***************************************************************************)
(* The collector under one sync run.                                       *)
(***************************************************************************)
MetricsSpecInit ==
    RunIdle /\ ExecIdle /\ RetryIdle /\ CacheIdle /\ PredIdle /\ UpgradeIdle /\ MetricsInit
        /\ WorkersIdle /\ RestIdle

MetricsNext ==
    \/ Tick
    \/ GatewayCall
    \/ MetricsStart
    \/ CacheInitDone
    \/ FilterUser
    \/ FilterDone
    \/ BatchStart
    \/ ItemHandled
    \/ BatchRaises
    \/ BatchEnd
    \/ MetricsFinish

SpecMetrics == MetricsSpecInit /\ [][MetricsNext]_vars

(***************************************************************************)
(* The worker count of a run.                                              *)
(***************************************************************************)
WorkersSpecInit ==
    RunIdle /\ ExecIdle /\ RetryIdle /\ CacheIdle /\ PredIdle /\ UpgradeIdle
        /\ MetricsIdle /\ WorkersInit /\ RestIdle

WorkersNext == ValidateMaxWorkers \/ StartPool \/ WorkersDone

SpecWorkers == WorkersSpecInit /\ [][WorkersNext]_vars

(***************************************************************************)
(* One call of update_user_subscriptions.                                  *)
(***************************************************************************)
SubsSpecInit ==
    RunIdle /\ ExecIdle /\ RetryIdle /\ CacheIdle /\ PredIdle /\ UpgradeIdle
        /\ MetricsIdle /\ WorkersIdle /\ SubsInit /\ BatchesIdle /\ CollectorIdle

SubsNext == UpdateUserSubscriptions

SpecSubs == SubsSpecInit /\ [][SubsNext]_vars

(***************************************************************************)
(* The three batches of execute_sync_plan.                                 *)
(***************************************************************************)
BatchesSpecInit ==
    RunIdle /\ ExecIdle /\ RetryIdle /\ CacheIdle /\ PredIdle /\ UpgradeIdle
        /\ MetricsIdle /\ WorkersIdle /\ SubsIdle /\ BatchesInit /\ CollectorIdle

BatchesNext ==
    \/ EnterBatch
    \/ SubmitTask
    \/ \E s \in Partitions : \E i \in BatchItemIds : TaskStart(s, i)
    \/ \E s \in Partitions : \E i \in BatchItemIds : TaskEnd(s, i)
    \/ CollectFuture
    \/ PoolExit
    \/ SerialOrReturn

SpecBatches == BatchesSpecInit /\ [][BatchesNext]_vars

(***************************************************************************)
(* Threads recording into one collector.                                   *)
(***************************************************************************)
CollectorSpecInit ==
    RunIdle /\ ExecIdle /\ RetryIdle /\ CacheIdle /\ PredIdle /\ UpgradeIdle
        /\ MetricsIdle /\ WorkersIdle /\ SubsIdle /\ BatchesIdle /\ CollectorInit

CollectorNext ==
    \E w \in Recorders :
        \/ RecordCall(w)
        \/ AcquireLock(w)
        \/ ReadCounter(w)
        \/ WriteCounter(w)
        \/ ReleaseLock(w)

SpecCollector == CollectorSpecInit /\ [][CollectorNext]_vars

(***************************************************************************)
(* Properties of the DataCache.                                            *)
(***************************************************************************)
\* the groups whose fetched member list holds the user
GroupsHolding(results, u) == {g \in DOMAIN results : u \in results[g]}

Built == dc_initialized /\ th[dc_builder].outcome = "returned"

\* C16: the initialize call that built the snapshot issued exactly one
\* list_users call, one list_groups call and one list_group_memberships call
\* per group that list_groups returned, whatever the number of users, and the
\* user-to-groups index holds a group name for a user exactly when that
\* group's fetched member list holds the user, each name once.
C16_BuildCallsAndInversion ==
    Built =>
        LET b == th[dc_builder] IN
        /\ b.list_users_calls = 1
        /\ b.list_groups_calls = 1
        /\ b.membership_calls = ListOf(gw_groups, GroupIdOrder)
        /\ Len(b.membership_calls) = Cardinality(gw_groups)
        /\ \A u \in UserIds :
              /\ \A g \in GroupIds :
                    (\E i \in DOMAIN get_user_groups(u) : get_user_groups(u)[i] = GroupName(g))
                        <=> g \in GroupsHolding(b.results, u)
              /\ Len(get_user_groups(u)) = Cardinality(GroupsHolding(b.results, u))
              /\ (u \in DOMAIN dc_user_id_to_groups) = (GroupsHolding(b.results, u) # {})
        /\ \A i \in DOMAIN dc_users :
              dc_users[i].groups = get_user_groups(dc_users[i].user_id)

C16_Witness ==
    /\ Built
    /\ Cardinality(gw_groups) = 2
    /\ Len(th[dc_builder].membership_calls) = 2
    /\ \E u \in gw_users : Cardinality(GroupsHolding(th[dc_builder].results, u)) = 2

\* C32: a snapshot that reports initialized was built by a call in which the
\* membership list of every group of list_groups was fetched, and its
\* user-to-groups index holds each group's name for each of the group's members.
C32_InitializedMeansAllMembershipsFetched ==
    Built =>
        /\ \A g \in gw_groups : g \in DOMAIN th[dc_builder].results
        /\ \A g \in gw_groups : \A u \in gw_members[g] :
              \E i \in DOMAIN get_user_groups(u) : get_user_groups(u)[i] = GroupName(g)

\* the contents of the snapshot
Contents == <<dc_users, dc_group_id_to_name, dc_user_id_to_groups>>

C18_SnapshotReadOnly == first_read.taken => last_read = first_read

(***************************************************************************)
(* Properties of _needs_update.                                            *)
(***************************************************************************)
\* whether list holds x
Holds(list, x) == \E i \in DOMAIN list : list[i] = x

\* the snapshot user differs from the desired record in one of the fields
\* the claim names
Differs(d, s, newfmt) ==
    \/ s.username # d.employee_id \o <<"@", "haier-saml.com">>
    \/ s.email # d.email
    \/ newfmt /\ s.display_name # d.employee_id \o <<"_">> \o d.name
    \/ \E g \in AllGroups :
          Holds(s.groups, g) # (g \in get_target_groups(d.subscription_type))

\* the snapshot user mirrors the canonical fields and the group set of d
Mirrors(d, s, newfmt) ==
    /\ s.username = get_username(d.employee_id)
    /\ s.email = d.email
    /\ s.display_name = new_display_name(d, newfmt)
    /\ \A g \in AllGroups :
          Holds(s.groups, g) <=> g \in get_target_groups(d.subscription_type)

\* C19: _needs_update returns true exactly when the username differs, or the
\* email differs, or (with the new format only) the display name differs from
\* employee_id + "_" + name, or the target groups and the current groups
\* differ as sets; a snapshot user that mirrors the record needs no update.
C19_NeedsUpdateExactly ==
    nu_pc = "done" =>
        /\ nu_result <=> Differs(nu_csv_user, nu_iam_user, nu_newfmt)
        /\ Mirrors(nu_csv_user, nu_iam_user, nu_newfmt) => ~nu_result

C19_Witness ==
    /\ nu_pc = "done"
    /\ ~nu_result
    /\ nu_csv_user.subscription_type = "ALL"
    /\ nu_iam_user.groups = <<qdev_group, kiro_group>>
    /\ Mirrors(nu_csv_user, nu_iam_user, nu_newfmt)

(***************************************************************************)
(* Properties of the attribute upgrade.                                    *)
(***************************************************************************)
\* C20: a call with dry_run = True calls update_user_with_operations for no
\* user, returns the generated plan with an empty operation list and with
\* successful_upgrades = failed_upgrades = 0, and leaves the directory as the
\* caller listed it.
C20_DryRunIssuesNoUpdate ==
    /\ up_dry_run => up_update_calls = <<>> /\ up_pc # "execute"
    /\ (up_dry_run /\ up_pc = "done") =>
          /\ up_result.returned
          /\ up_result.upgrade_operations = <<>>
          /\ up_result.successful_upgrades = 0
          /\ up_result.failed_upgrades = 0
          /\ up_result.upgrade_plan = up_plan
          /\ up_result.total_users = Len(up_plan.users_to_upgrade)
          /\ DataCacheUsers(up_dir) = up_iam_users

C20_Witness ==
    /\ up_dry_run
    /\ up_pc = "done"
    /\ Len(up_result.upgrade_plan.users_to_upgrade) = 2
    /\ up_result.upgrade_plan.total_operations > 0

\* the pairs of the generated plan
PlanPairs == { up_plan.users_to_upgrade[i] : i \in DOMAIN up_plan.users_to_upgrade }

\* the username is the canonical one of the employee id, or the raw id
NamesEmployee(username, employee_id) ==
    \/ username = employee_id \o <<"@", "haier-saml.com">>
    \/ username = employee_id

\* one of the five attributes is not in the canonical form
NotCanonical(s, d) ==
    \/ s.username # d.employee_id \o <<"@", "haier-saml.com">>
    \/ s.display_name # d.employee_id \o <<"_">> \o d.name
    \/ s.first_name # d.employee_id
    \/ s.last_name # d.name
    \/ s.email # d.email

\* C21: once the plan is generated, the pair of a listed user and a record of
\* the roster is in it exactly when the username is the canonical username of
\* the record's employee id, or that id with no '@', and one of username,
\* display name, given name, family name and email is not canonical; a user
\* whose username names no record of the roster is in no pair.
C21_PlanHoldsExactlyTheStalePairs ==
    up_pc \in {"execute", "done"} =>
        /\ \A i \in DOMAIN up_iam_users : \A j \in DOMAIN up_csv_users :
              LET s == up_iam_users[i]
                  d == up_csv_users[j]
              IN (<<s, d>> \in PlanPairs)
                   <=> (NamesEmployee(s.username, d.employee_id) /\ NotCanonical(s, d))
        /\ \A p \in PlanPairs :
              \E j \in DOMAIN up_csv_users :
                  p[2] = up_csv_users[j] /\ NamesEmployee(p[1].username, p[2].employee_id)

\* the pairs of the plan for which convert_to_new_format gives an operation
PairsWithOperations ==
    { i \in DOMAIN up_plan.users_to_upgrade :
        \E f \in {"first_name", "last_name", "display_name", "email"} :
            up_plan.users_to_upgrade[i][1][f] #
                (CASE f = "first_name" -> up_plan.users_to_upgrade[i][2].employee_id
                   [] f = "last_name" -> up_plan.users_to_upgrade[i][2].name
                   [] f = "display_name" ->
                        NewDisplayName(up_plan.users_to_upgrade[i][2].employee_id,
                                       up_plan.users_to_upgrade[i][2].name)
                   [] OTHER -> up_plan.users_to_upgrade[i][2].email) }

\* C22: a call with dry_run = False that has returned has called
\* update_user_with_operations at most once per pair of the plan (once for
\* each pair with an operation, for its user), holds one OperationResult per
\* pair in the order of the plan, and successful_upgrades + failed_upgrades
\* = total_users = the number of pairs, also when an update failed.
C22_OneCallAndOneResultPerPair ==
    (up_pc = "done" /\ ~up_dry_run) =>
        LET pairs == up_plan.users_to_upgrade
            ops == up_result.upgrade_operations
        IN /\ Len(ops) = Len(pairs)
           /\ \A i \in DOMAIN pairs : ops[i].target = pairs[i][1].username
           /\ up_result.total_users = Len(pairs)
           /\ up_result.successful_upgrades + up_result.failed_upgrades = Len(pairs)
           /\ up_result.failed_upgrades =
                 Cardinality({ i \in DOMAIN ops : ~ops[i].success })
           /\ Len(up_update_calls) = Cardinality(PairsWithOperations)
           /\ \A i, j \in DOMAIN up_update_calls :
                 i # j => up_update_calls[i] # up_update_calls[j]
           /\ \A i \in DOMAIN up_update_calls :
                 \E j \in PairsWithOperations : up_update_calls[i] = pairs[j][1].username

C22_Witness ==
    /\ up_pc = "done"
    /\ ~up_dry_run
    /\ Len(up_plan.users_to_upgrade) = 2
    /\ Len(up_result.upgrade_operations) = 2
    /\ ~up_result.upgrade_operations[1].success
    /\ up_result.upgrade_operations[2].success
    /\ Len(up_update_calls) = 2

\* the entry of the log for the operation at a position
LogOf(i) == CHOOSE l \in { vf_log[k] : k \in DOMAIN vf_log } : l.index = i

\* the fetched user carries the four target values
CarriesTargets(current_user, target) ==
    /\ current_user.display_name = target.display_name
    /\ current_user.first_name = target.first_name
    /\ current_user.last_name = target.last_name
    /\ current_user.email = target.email

\* C23: when the verification has returned, every successful operation has
\* been looked up, each fetched user was counted as passed exactly when its
\* display name, given name, family name and primary email equal the target
\* values of the operation, and passed_verification counts these.
C23_VerifyComparesTheFourAttributes ==
    up_pc = "verified" =>
        LET ops == up_result.upgrade_operations IN
        /\ \A i \in DOMAIN ops : ops[i].success => LogOf(i).lookup # "skipped"
        /\ \A i \in DOMAIN ops :
              LogOf(i).lookup = "fetched" =>
                  (LogOf(i).passed
                     <=> CarriesTargets(LogOf(i).current_user, ops[i].new_attributes))
        /\ vf_stats.passed_verification =
              Cardinality({ i \in DOMAIN ops : LogOf(i).passed })

\* the lookups that found no user or raised
FailedLookups == {"absent", "lookup_raised", "describe_raised"}

C36_VerifyStatsAddUp ==
    vf_stats.passed_verification + vf_stats.failed_verification = vf_stats.total_verified

\* C34: after a call with dry_run = False in which every pair of the plan
\* succeeded, and with no other edit of the directory, a plan generated from
\* the directory as it is then and the same csv_users has no pair.
C34_UpgradeConverges ==
    (up_pc = "done" /\ ~up_dry_run /\ up_result.failed_upgrades = 0 /\ vf_edits = 0) =>
        generate_upgrade_plan(DataCacheUsers(up_dir), up_csv_users).users_to_upgrade = <<>>

\* C40: when a retry loop has raised its AWSClientError for a ClientError
\* with some code, UserManager._is_rate_limit_error is true of that error
\* exactly when AWSClient._is_rate_limit_error classifies the code as
\* throttling.
C40_RateLimitDetectionAgrees ==
    (rt_pc = "raised" /\ rt_outcomes # <<>>
            /\ rt_outcomes[Len(rt_outcomes)] \in ClientErrorCodes) =>
        (is_rate_limit_error(rt_error)
            <=> rt_outcomes[Len(rt_outcomes)] \in rate_limit_codes)

(***************************************************************************)
(* Properties of update_user_subscriptions.                                *)
(***************************************************************************)
\* C37: a call of update_user_subscriptions leaves every other user as it
\* was and changes nothing of its user but the groups; the groups it adds are
\* target groups, the groups it removes are managed groups outside the
\* target set; and when it reports success the managed groups of its user are
\* the target set.
C37_SubscriptionsTouchOnlyManagedGroups ==
    sb_pc = "done" =>
        LET un == get_username(sb_user.employee_id)
            target == get_target_groups(sb_user.subscription_type)
        IN /\ DOMAIN sb_dir = DOMAIN sb_before
           /\ \A x \in DOMAIN sb_dir :
                 /\ x # un => sb_dir[x] = sb_before[x]
                 /\ [sb_dir[x] EXCEPT !.groups = {}] = [sb_before[x] EXCEPT !.groups = {}]
                 /\ sb_dir[x].groups \ sb_before[x].groups \subseteq target
                 /\ sb_before[x].groups \ sb_dir[x].groups
                       \subseteq {kiro_group, qdev_group} \ target
           /\ sb_success =>
                 IF un \in DOMAIN sb_dir
                     THEN sb_dir[un].groups \cap {kiro_group, qdev_group} = target
                     ELSE target = {}

C37_Witness ==
    /\ sb_pc = "done"
    /\ sb_success
    /\ sb_user.subscription_type = "QDEV"
    /\ get_username(sb_user.employee_id) \in DOMAIN sb_dir
    /\ sb_before[get_username(sb_user.employee_id)].groups = {kiro_group, other_group}
    /\ sb_dir[get_username(sb_user.employee_id)].groups = {qdev_group, other_group}

(***************************************************************************)
(* Properties of the collector under concurrent record calls.              *)
(***************************************************************************)
\* C39: whenever the lock of the collector is free (the states its readers
\* can see), every tally has total = success + failed and the cache has
\* total = hits + misses, and each counter is exactly the number of the
\* matching record calls that have returned: no update is lost, and a
\* record_operation with an unknown kind has changed nothing.
C39_CollectorIsConsistent ==
    mc_lock = 0 =>
        \A t \in Tables :
            IF t = "_cache_stats"
                THEN /\ mc_tables[t].total = mc_tables[t].hits + mc_tables[t].misses
                     /\ mc_tables[t].hits = mc_recorded[t].success
                     /\ mc_tables[t].misses = mc_recorded[t].failed
                ELSE /\ mc_tables[t].total = mc_tables[t].success + mc_tables[t].failed
                     /\ mc_tables[t].success = mc_recorded[t].success
                     /\ mc_tables[t].failed = mc_recorded[t].failed

\* all the calls of two threads have returned: two create operations were
\* recorded, and the last call of the second thread had an unknown kind
C39_Witness ==
    /\ mc_lock = 0
    /\ mc_calls = MaxRecordCalls
    /\ \A w \in Recorders : mc_pc[w] = "idle"
    /\ mc_tables["create"].total = 2
    /\ mc_call[1].op_type = "create"
    /\ mc_call[2].op_type = "modify"

(***************************************************************************)
(* Properties of the order of the batches.                                 *)
(***************************************************************************)
\* C38: once an operation of a partition has started, every item of every
\* earlier partition has had its operation finished and no task of an
\* earlier partition is queued or running: the updates start after all the
\* creates, the deletes after all the updates.
C38_BatchesAreSequential ==
    \A s \in Partitions : \A t \in Partitions :
        (s < t /\ \E j \in BatchItemIds : <<t, j>> \in bt_begun) =>
            \A i \in 1..bt_plan[s] :
                /\ <<s, i>> \in bt_finished
                /\ bt_future[s][i] \notin Unfinished

\* an update has started in a run whose create batch had a rate-limit error
\* followed by the serial fallback
C38_Witness ==
    /\ <<2, 1>> \in bt_begun
    /\ bt_plan[1] = MaxPartition
    /\ bt_future[1][1] = "raised"
    /\ bt_future[1][2] = "result"
    /\ bt_stage = 2

(***************************************************************************)
(* Properties of the collector.                                            *)
(***************************************************************************)
\* C26: no step of a run lowers a metric of the collector: the duration of a
\* phase, the three API call tallies, the cache hits, misses and total, and
\* the total, success and failed count of each operation kind.
C26_MetricsNeverDecrease ==
    [][/\ \A p \in PhaseNames : pm_phases'[p].duration >= pm_phases[p].duration
       /\ \A f \in {"total", "success", "failed"} :
             /\ pm_api_calls'[f] >= pm_api_calls[f]
             /\ \A k \in OpTypes : pm_operations'[k][f] >= pm_operations[k][f]
       /\ \A f \in {"hits", "misses", "total"} :
             pm_cache_stats'[f] >= pm_cache_stats[f]]_vars

C26_Witness ==
    /\ pm_pc = "finished"
    /\ ~pm_show_progress
    /\ pm_phases["overall"].duration = MaxClock
    /\ pm_phases["update"].duration > 0
    /\ pm_operations["update"].total = 2
    /\ pm_operations["create"].failed = 1
    /\ pm_cache_stats.hits = 1
    /\ pm_cache_stats.misses = 1

\* C27: the collector's API call total is the number of gateway calls that
\* completed in _retry_api_call, and is the sum of its success and failed
\* counts.
C27_EveryGatewayCallIsRecorded ==
    /\ pm_api_calls.total = pm_gateway_calls
    /\ pm_api_calls.total = pm_api_calls.success + pm_api_calls.failed

(***************************************************************************)
(* Properties of the planner.                                              *)
(***************************************************************************)
Planned == phase \in {"confirm", "done"}

InList(u, list) == \E i \in DOMAIN list : list[i] = u

\* the snapshot users sync_users may delete: managed suffix, not in the roster
Deletable ==
    { un \in DOMAIN directory :
        un \notin Usernames(desired) /\ EndsWith(un, username_suffix) }

\* C1: sync_users places every desired identity in exactly one of toCreate
\* (username absent from the snapshot), toUpdate (present and needs-update)
\* or no-op (present and not needs-update), and the usernames of toCreate,
\* toUpdate and toDelete are pairwise disjoint.
C1_PartitionAndDisjoint ==
    Planned =>
        LET c == sync_plan.users_to_create
            u == sync_plan.users_to_update
            d == sync_plan.users_to_delete
        IN /\ \A i \in DOMAIN desired :
                LET x == desired[i]
                    un == get_username(x.employee_id)
                    present == un \in DOMAIN directory
                    needs == present /\ needs_update(x, IAMUser(directory, un), use_new_format)
                IN /\ InList(x, c) <=> ~present
                   /\ InList(x, u) <=> needs
                   /\ ~(InList(x, c) /\ InList(x, u))
           /\ Len(c) = Cardinality(Usernames(c))
           /\ Len(u) = Cardinality(Usernames(u))
           /\ Usernames(c) \cap Usernames(u) = {}
           /\ Usernames(c) \cap Usernames(d) = {}
           /\ Usernames(u) \cap Usernames(d) = {}

\* C35: the entries of toDelete stand for the deletable snapshot users, one
\* each in the order of the snapshot, and the username delete_user looks up
\* for an entry (get_username of its employee id) is the username of its
\* snapshot user and is not the username of a desired identity.
C35_DeleteTargetsItsSnapshotUser ==
    Planned =>
        LET d == sync_plan.users_to_delete
            from == ListOrder(Deletable)
        IN /\ Len(d) = Len(from)
           /\ \A i \in DOMAIN d :
                 /\ get_username(d[i].employee_id) = from[i]
                 /\ get_username(d[i].employee_id) \notin Usernames(desired)

\* C2: every entry of toDelete comes from a snapshot identity whose username
\* ends with the managed-domain suffix (and is absent from the roster), and
\* the username the entry carries ends with the suffix; an identity without
\* the suffix is never put in toDelete.
C2_DeleteOnlyManagedSuffix ==
    Planned =>
        LET d == sync_plan.users_to_delete
        IN /\ Len(d) = Cardinality(Deletable)
           /\ \A i \in DOMAIN d :
                /\ EndsWith(get_username(d[i].employee_id), username_suffix)
                /\ \E un \in Deletable : d[i] = TempUser(IAMUser(directory, un))

\* C2 witness: a plan with a delete entry, made against a snapshot that also
\* holds an identity outside the managed suffix that the roster lacks
C2_Witness ==
    /\ Planned
    /\ sync_plan.users_to_delete # <<>>
    /\ \E un \in DOMAIN directory :
          un \notin Usernames(desired) /\ ~EndsWith(un, username_suffix)

(***************************************************************************)
(* Properties of a run.                                                    *)
(***************************************************************************)
\* C3: when every operation of the run succeeded, planning again against
\* the directory as the run left it yields an empty plan.
C3_RoundTripConverges ==
    (phase = "replanned" /\ run_ok) => total_operations(replan) = 0

\* C4: every diff decision of a run reads from one snapshot, built once.
C4_OneSnapshotPerRun ==
    /\ Cardinality({ r[2] : r \in decision_reads }) <= 1
    /\ snapshots_built <= 1

(***************************************************************************)
(* Properties of the concurrent batch executor.                            *)
(***************************************************************************)
ResultsOf(i, via) ==
    { k \in DOMAIN operation_results :
        operation_results[k].item = i /\ operation_results[k].via = via }

C6_ThrottlingExhaustionSetsFlag ==
    \A i \in Items :
        (gw[i] = "throttling_exhausted" /\ task[i] \in {"returned", "raised"})
            => rate_limit_event

Phase ==
    CASE ex_pc \in {"check", "submit"} -> 1     \* Submitting
      [] ex_pc \in {"collect", "join"} -> 2     \* Draining
      [] ex_pc = "serial" -> 3                  \* Serial Fallback
      [] OTHER -> 4                             \* Done

C9_UnsubmittedGoSerial ==
    /\ (ex_pc = "done" /\ rate_limit_event) =>
          \A i \in 1..n_users :
              task[i] = "unsubmitted" =>
                  /\ Cardinality(ResultsOf(i, "serial")) = 1
                  /\ ResultsOf(i, "pool") \cup ResultsOf(i, "timeout") = {}
                  /\ calls[i] = 1
    /\ ex_pc = "serial" =>
          /\ Running = {}
          /\ \A i \in Items : task[i] # "queued"

\* C9 witness: a finished call that stopped submitting with two items left
C9_Witness ==
    /\ ex_pc = "done"
    /\ rate_limit_event
    /\ Cardinality({ i \in 1..n_users : task[i] = "unsubmitted" }) >= 2

\* the results the serial loop appended, in the order of operation_results
SerialResults ==
    LET BySerial(r) == r.via = "serial" IN SelectSeq(operation_results, BySerial)

\* C28: the serial fallback handles the remaining users one after another in
\* input order: while it runs no pool task runs, it is inside
\* process_single_user for one user only after the results of all remaining
\* users before that one were appended, and its results are the tail of
\* operation_results, for consecutive users in ascending order up to the
\* last user of the input.
C28_SerialFallbackKeepsInputOrder ==
    LET sr == SerialResults IN
    /\ \A a \in 1..(Len(sr) - 1) : sr[a + 1].item = sr[a].item + 1
    /\ \A a, b \in DOMAIN operation_results :
          (a < b /\ operation_results[a].via = "serial")
              => operation_results[b].via = "serial"
    /\ Len(sr) > 0 => /\ ex_pc \in {"serial", "done"}
                      /\ sr[Len(sr)].item = serial_i - 1
    /\ ex_pc = "serial" => Running = {}
    /\ (ex_pc = "done" /\ Len(sr) > 0) => sr[Len(sr)].item = n_users

C28_Witness ==
    /\ ex_pc = "done"
    /\ Len(SerialResults) = 2
    /\ \E a \in DOMAIN operation_results : operation_results[a].via = "pool"
    /\ SerialResults[1].success # SerialResults[2].success

\* C29: after the validation the worker count lies in 1..10, and so does the
\* size of every pool a batch is run with.
C29_PoolSizeWithinBounds ==
    /\ wk_pc \in {"batches", "done", "raised"} => wk_max_workers \in 1..10
    /\ \A k \in DOMAIN wk_pools : wk_pools[k] \in 1..10

\* C30: a call with show_progress does not fail for it: it does not end by
\* raising where the tracker is made, and a finished call has counted one
\* result per appended result, as a call without progress does.
C30_ProgressIsASideChannel ==
    /\ show_progress => ex_pc # "raised"
    /\ ex_pc = "done" =>
          successful_operations + failed_operations = Len(operation_results)

TerminalCodes ==
    {"ValidationException", "ResourceNotFoundException", "ConflictException",
     "AccessDeniedException"}

\* C10: a call of func that fails with a terminal code is the last one: the
\* loop raises without sleeping after it, and when it is the first call the
\* function was called once and nothing was slept, whatever max_attempts is.
C10_TerminalFailsImmediately ==
    /\ \A k \in DOMAIN rt_outcomes :
          rt_outcomes[k] \in TerminalCodes =>
              /\ k = Len(rt_outcomes)
              /\ rt_pc = "raised"
              /\ Len(rt_sleeps) = k - 1
              /\ ~handle_aws_api_error(rt_outcomes[k])
    /\ (rt_outcomes # <<>> /\ rt_outcomes[1] \in TerminalCodes) =>
          /\ Len(rt_outcomes) = 1
          /\ rt_sleeps = <<>>

\* C10 witness: the first call failed with a terminal code while attempts
\* were left
C10_Witness ==
    /\ rt_pc = "raised"
    /\ rt_max_attempts > 1
    /\ rt_outcomes = <<"ConflictException">>

\* the codes that stand for throttling, too-many-requests, request-limit and
\* slow-down
ThrottlingCodes ==
    {"ThrottlingException", "Throttling", "TooManyRequestsException",
     "RequestLimitExceeded", "SlowDown"}

\* C11: after k calls in a row that failed with a throttling code, k <
\* max_attempts, the loop has not given up, and when the next call succeeds
\* it returns after exactly k sleeps, the i-th (from 0) of
\* initial_delay * backoff_factor^i.
C11_ThrottledThenSuccess ==
    LET n == Len(rt_outcomes)
        throttled(m) == \A i \in 1..m : rt_outcomes[i] \in ThrottlingCodes
    IN /\ (throttled(n) /\ n < rt_max_attempts) => rt_pc \in {"sleep", "call"}
       /\ (n > 0 /\ throttled(n - 1) /\ rt_outcomes[n] = "ok") =>
              /\ rt_pc = "returned"
              /\ Len(rt_sleeps) = n - 1
              /\ \A i \in 1..(n - 1) :
                    rt_sleeps[i] = initial_delay * backoff_factor ^ (i - 1)

\* C11 witness: two throttled calls, then a success, through _retry_api_call
C11_Witness ==
    /\ rt_func = "_retry_api_call"
    /\ rt_pc = "returned"
    /\ rt_outcomes = <<"ThrottlingException", "SlowDown", "ok">>
    /\ rt_sleeps = <<1, 2>>

\* the error a loop raises for a terminal code
TerminalError(func, code) ==
    IF func = "_retry_api_call" THEN retry_api_call_error(code)
    ELSE call_with_retry_error(code)

\* what a caller can tell two AWSClientErrors apart by: the text of the
\* message, or what UserManager._is_rate_limit_error makes of them
Distinguishable(e1, e2) ==
    \/ e1.text # e2.text
    \/ is_rate_limit_error(e1) # is_rate_limit_error(e2)

\* C12: when all max_attempts calls failed with a throttling code, the error
\* the loop raises can be told apart from the error it raises for any
\* terminal code.
C12_ExhaustionErrorDistinct ==
    ( /\ rt_pc = "raised"
      /\ Len(rt_outcomes) = rt_max_attempts
      /\ \A i \in DOMAIN rt_outcomes : rt_outcomes[i] \in ThrottlingCodes )
    => \A t \in TerminalCodes : Distinguishable(rt_error, TerminalError(rt_func, t))

\* C13: a call that ends with an exception that is not a ClientError is
\* retried like a throttled one: the loop gives up only when it was the last
\* of the max_attempts attempts, and the sleep after the i-th call (from 0)
\* is initial_delay * backoff_factor^i.
C13_OtherExceptionRetried ==
    LET n == Len(rt_outcomes)
    IN /\ (n > 0 /\ rt_outcomes[n] = "Exception" /\ n < rt_max_attempts)
              => rt_pc \in {"sleep", "call"}
       /\ (n > 0 /\ rt_outcomes[n] = "Exception" /\ n = rt_max_attempts)
              => rt_pc = "raised"
       /\ \A i \in DOMAIN rt_sleeps :
              rt_sleeps[i] = initial_delay * backoff_factor ^ (i - 1)

\* C33: _retry_api_call calls func at most max_attempts times and sleeps at
\* most max_attempts - 1 times; when it has ended it has called func at least
\* once, and it ended by returning the result of a call that succeeded or by
\* raising AWSClientError, never by returning without such a call.
C33_RetryLoopIsBounded ==
    rt_func = "_retry_api_call" =>
        /\ Len(rt_outcomes) <= rt_max_attempts
        /\ rt_max_attempts >= 1 => Len(rt_sleeps) <= rt_max_attempts - 1
        /\ rt_pc \in {"returned", "raised", "returned_none"} => Len(rt_outcomes) >= 1
        /\ rt_pc = "returned" => rt_outcomes[Len(rt_outcomes)] = "ok"
        /\ rt_pc = "raised" => rt_error # NoError
        /\ rt_pc # "returned_none"

TimedOut == { k \in DOMAIN operation_results : operation_results[k].via = "timeout" }

\* C14: a wait that times out leaves a failed result with the timed-out
\* message for that item and the collection goes on: while the calling thread
\* collects, every future it has passed left exactly one result; a timed-out
\* result is a failure, stands at its item's place and is counted as failed;
\* and the finished call holds a result for every item, a timed-out item's
\* being its only one.
C14_TimeoutIsFailedResult ==
    /\ ex_pc = "collect" => Len(operation_results) = collect_i - 1
    /\ \A k \in TimedOut :
          /\ ~operation_results[k].success
          /\ operation_results[k].item = k
          /\ k <= Submitted
    /\ failed_operations >= Cardinality(TimedOut)
    /\ ex_pc = "done" =>
          \A i \in 1..n_users :
              /\ \E k \in DOMAIN operation_results : operation_results[k].item = i
              /\ ResultsOf(i, "timeout") # {} =>
                    ResultsOf(i, "pool") \cup ResultsOf(i, "serial") = {}

\* C14 witness: the wait for the first item timed out and the second item's
\* result was collected from the pool after it
C14_Witness ==
    /\ ex_pc = "done"
    /\ Len(operation_results) >= 2
    /\ operation_results[1].via = "timeout"
    /\ operation_results[2].via = "pool"
    /\ operation_results[2].success

\* C15: when building a snapshot failed, the run is given up and no
\* mutation was issued by a batch that had no snapshot.
C15_SnapshotFailureAborts ==
    snapshot_failures # {} => (phase = "aborted" /\ blind_calls = 0)

====
